---- MODULE Spec2Model ----
(***************************************************************************)
(* Model of the company auto-apply system (polarisaistudio/               *)
(* company-auto-apply): the job classifier (ai_modules/job_classifier.py), *)
(* the application tracker (tracking/application_tracker.py) and the       *)
(* driver loop run_company_applications (main.py).                         *)
(*                                                                         *)
(* Confidences are Python floats in the code.  They are modelled as exact  *)
(* rationals <<numerator, denominator>> with a positive denominator; the   *)
(* float NaN (json.loads accepts the literal NaN, float() accepts "nan")   *)
(* is the pair <<0, 0>>, for which every ordered comparison is false.      *)
(***************************************************************************)
EXTENDS Integers, Sequences, FiniteSets, TLC

VARIABLES
    \* ---- JobClassifier: one call of should_apply_to_job -----------------
    job,                \* the JobPosting passed in: title, description, requirements
    min_confidence,     \* the min_confidence argument of should_apply_to_job
    cpc,                \* position inside should_apply_to_job / classify_job
    role_scores,        \* role_scores dict built by _rule_based_classification
    rule_based_result,  \* classify_job's local rule_based_result
    ai_response,        \* what the chat-completion call did on this invocation
    ai_result,          \* classify_job's local ai_result
    final_result,       \* the verdict classify_job returns
    decision,           \* the boolean should_apply_to_job returns
    model_calls,        \* number of client.chat.completions.create invocations
    raised,             \* an exception left classify_job
    \* ---- ApplicationTracker: the SQLite tables --------------------------
    applications,       \* rows of table applications, in insertion order
    application_events, \* rows of table application_events
    tracker_calls,      \* tracker operations performed so far; stands for datetime.now()
    last_op,            \* the last tracker operation, the job URL it was given and
                        \* whether the INSERT was refused
    \* ---- CompanyJobAutomationSystem.run_company_applications ------------
    pc,                 \* position inside run_company_applications
    runs,               \* number of runs started
    max_applications_per_day,  \* config.max_applications_per_day
    require_manual_review,     \* config.require_manual_review
    company_index,      \* position of `for company_config in target_companies`
    applications_today, \* local applications_today
    scraper,            \* the local `scraper`: "unbound", or its driver "open" / "quit"
    open_sessions,      \* number of browser sessions created and not quit
    relevant_jobs,      \* local relevant_jobs: job URLs, highest confidence first
    job_index,          \* position of `for job_info in relevant_jobs`
    apply_calls,        \* per job URL, the number of apply_to_job invocations
    exception_caught,   \* the except clause of the company loop ran in this run
    skip_all_at,        \* number of apply_to_job calls made so far when the operator
                        \* answered 's' in this run, -1 while they have not
    company_applications,  \* successful applications to the current company in this run
    \* ---- _passes_company_filters: one call ------------------------------
    filter_job,         \* the JobPosting passed in: title, description, location, salary
    company_config,     \* the company_config passed in: preferred_locations
    salary_min,         \* config.salary_min
    fpc,                \* position inside _passes_company_filters
    extracted_salary,   \* what extract_salary returned, NULL while not called
    passes,             \* the boolean _passes_company_filters returns
    \* ---- CompanyApplier.apply_to_job: one call ---------------------------
    apc,                \* position inside apply_to_job
    upload_required,    \* the page's form has a mandatory file input
    browser_log,        \* what was done to the page and which steps raised, in order
    fields_filled,      \* _fill_application_form's fields_filled
    files_uploaded,     \* the local files_uploaded of apply_to_job: NULL while
                        \* unset, then "true" or "false"
    page_source,        \* driver.page_source read by _check_submission_success
    current_url,        \* driver.current_url read by _check_submission_success
    apply_result,       \* what apply_to_job returned: "pending", "true", "false"
    \* ---- CompanyManager ---------------------------------------------------
    companies_file,     \* the companies file: how opening and parsing it ends,
                        \* and the list of entries it holds
    mpc,                \* "idle", "ready", "saved" after the file was rewritten, or
                        \* "loaded" after get_target_companies
    manager_calls,      \* number of add_company, update_company, disable_company calls
    disabled_companies, \* the names disable_company returned True for
    active_companies,   \* the list get_target_companies returned
    load_raised,        \* get_target_companies raised an exception
    warnings_logged,    \* number of logger.warning calls of _validate_company_config
    \* ---- DailyJobScheduler ------------------------------------------------
    is_running,         \* self.is_running
    exec_pc,            \* per coroutine of _run_daily_job_search, its position
    stats,              \* self.stats: total_runs and successful_runs
    skipped_executions, \* number of "already running, skipping" warnings
    \* ---- CompanyApplier: one call of a form helper ------------------------
    helper,             \* the helper called: _handle_file_uploads,
                        \* _add_cover_letter_text or _submit_application
    hpc,                \* position inside the helper
    page_elements,      \* the elements find_elements returned to the helper
    selector_index,     \* position of `for selector in submit_selectors`
    element_actions,    \* the driver calls that act on the page, in order
    helper_result       \* what the helper returned, or that it raised

classifierVars == << job, min_confidence, cpc, role_scores, rule_based_result,
                     ai_response, ai_result, final_result, decision,
                     model_calls, raised >>
trackerVars == << applications, application_events, tracker_calls, last_op >>
runVars == << pc, runs, max_applications_per_day, require_manual_review,
              company_index, applications_today, scraper, open_sessions,
              relevant_jobs, job_index, apply_calls, exception_caught,
              skip_all_at, company_applications >>
filterVars == << filter_job, company_config, salary_min, fpc, extracted_salary,
                 passes >>
\* the variables of the components modelled further down
applierVars == << apc, upload_required, browser_log, fields_filled, files_uploaded,
                  page_source, current_url, apply_result >>
managerVars == << companies_file, mpc, active_companies, load_raised,
                  warnings_logged, manager_calls, disabled_companies >>
schedulerVars == << is_running, exec_pc, stats, skipped_executions >>
helperVars == << helper, hpc, page_elements, selector_index, element_actions,
                 helper_result >>
extVars == << filterVars, applierVars, managerVars, schedulerVars, helperVars >>
notFilterVars == << applierVars, managerVars, schedulerVars, helperVars >>
notApplierVars == << filterVars, managerVars, schedulerVars, helperVars >>
notManagerVars == << filterVars, applierVars, schedulerVars, helperVars >>
notSchedulerVars == << filterVars, applierVars, managerVars, helperVars >>
notHelperVars == << filterVars, applierVars, managerVars, schedulerVars >>
coreVars == << classifierVars, trackerVars, runVars >>
vars == << coreVars, extVars >>

-----------------------------------------------------------------------------
(* Floats as exact rationals                                               *)

NaN == << 0, 0 >>
IsNaN(x) == x[2] = 0
Lt(x, y) == ~IsNaN(x) /\ ~IsNaN(y) /\ x[1] * y[2] < y[1] * x[2]
Gt(x, y) == Lt(y, x)
Eq(x, y) == ~IsNaN(x) /\ ~IsNaN(y) /\ x[1] * y[2] = y[1] * x[2]
Ge(x, y) == Gt(x, y) \/ Eq(x, y)
Le(x, y) == Lt(x, y) \/ Eq(x, y)
Zero == << 0, 1 >>
One == << 1, 1 >>
InUnitInterval(x) == Ge(x, Zero) /\ Le(x, One)

\* the sum of the two confidences, not halved
SumNotHalved(x, y) ==
    IF IsNaN(x) \/ IsNaN(y) THEN NaN
    ELSE << x[1] * y[2] + y[1] * x[2], x[2] * y[2] >>

\* (x + y) / 2, job_classifier.py line 276
Mean(x, y) ==
    IF IsNaN(x) \/ IsNaN(y) THEN NaN
    ELSE << x[1] * y[2] + y[1] * x[2], 2 * x[2] * y[2] >>

-----------------------------------------------------------------------------
(* JobRole and the keyword tables of JobClassifier.__init__                *)

AI_ENGINEER == "ai_engineer"
CLOUD_ENGINEER == "cloud_engineer"
DATA_SCIENTIST == "data_scientist"
SECURITY_ANALYST == "security_analyst"
OTHER_ROLE == "other"   \* JobRole.OTHER (OTHER is a TLA+ keyword)
JobRole == { AI_ENGINEER, CLOUD_ENGINEER, DATA_SCIENTIST, SECURITY_ANALYST, OTHER_ROLE }

\* the keys of role_patterns, in dict (insertion) order
PatternRoles == << AI_ENGINEER, CLOUD_ENGINEER, DATA_SCIENTIST, SECURITY_ANALYST >>

role_patterns ==
    [ r \in { PatternRoles[i] : i \in 1..Len(PatternRoles) } |->
      CASE r = AI_ENGINEER ->
        [ primary_keywords |->
            << "ai engineer", "artificial intelligence",
               "machine learning engineer", "ml engineer", "deep learning",
               "neural networks", "llm", "nlp", "computer vision", "pytorch",
               "tensorflow", "transformers", "ai research", "applied scientist",
               "ml platform", "mlops" >>,
          secondary_keywords |->
            << "python", "keras", "scikit-learn", "pandas", "numpy",
               "model deployment", "model training", "feature engineering",
               "recommender systems", "reinforcement learning", "gpt", "bert" >>,
          anti_keywords |->
            << "purely frontend", "marketing", "sales", "business development" >> ]
        [] r = CLOUD_ENGINEER ->
        [ primary_keywords |->
            << "cloud engineer", "devops", "sre", "site reliability",
               "infrastructure", "kubernetes", "docker", "aws", "gcp", "azure",
               "terraform", "ansible", "jenkins", "ci/cd", "platform engineer" >>,
          secondary_keywords |->
            << "monitoring", "prometheus", "grafana", "microservices",
               "containerization", "orchestration", "automation", "scaling",
               "load balancing", "networking", "security", "compliance" >>,
          anti_keywords |->
            << "frontend only", "marketing", "sales", "business development" >> ]
        [] r = DATA_SCIENTIST ->
        [ primary_keywords |->
            << "data scientist", "data science", "analytics",
               "statistical analysis", "predictive modeling", "data mining",
               "business intelligence", "data analyst", "quantitative analyst",
               "research scientist" >>,
          secondary_keywords |->
            << "python", "r", "sql", "tableau", "pandas", "numpy", "scipy",
               "statistics", "hypothesis testing", "a/b testing", "visualization",
               "reporting", "dashboard", "insights", "experimentation" >>,
          anti_keywords |->
            << "purely engineering", "infrastructure only", "marketing", "sales" >> ]
        [] r = SECURITY_ANALYST ->
        [ primary_keywords |->
            << "security analyst", "cybersecurity analyst", "soc analyst",
               "information security", "cyber security", "security engineer",
               "incident response", "threat analysis", "vulnerability assessment",
               "security operations", "infosec", "cybersecurity specialist" >>,
          secondary_keywords |->
            << "siem", "splunk", "wireshark", "nessus", "metasploit", "burp suite",
               "penetration testing", "ethical hacking", "malware analysis",
               "forensics", "compliance", "risk assessment", "firewall", "ids",
               "ips", "threat hunting", "security monitoring", "cissp", "ceh",
               "sans", "nist", "iso 27001", "pci dss", "gdpr", "hipaa" >>,
          anti_keywords |->
            << "purely sales", "marketing only", "business development only" >> ] ]

-----------------------------------------------------------------------------
(* String primitives: str.lower() and the substring test `keyword in text` *)

UpperCaseLetters == "ABCDEFGHIJKLMNOPQRSTUVWXYZ"
LowerCaseLetters == "abcdefghijklmnopqrstuvwxyz"

CharAt(s, i) == SubSeq(s, i, i)

LowerChar(c) ==
    IF \E k \in 1..Len(UpperCaseLetters) : CharAt(UpperCaseLetters, k) = c
    THEN CharAt(LowerCaseLetters,
                CHOOSE k \in 1..Len(UpperCaseLetters) : CharAt(UpperCaseLetters, k) = c)
    ELSE c

\* str.lower(): every character mapped by LowerChar, in order (the string is
\* split in halves so that the recursion depth stays logarithmic)
RECURSIVE Lower(_)
Lower(s) ==
    IF Len(s) = 0 THEN ""
    ELSE IF Len(s) = 1 THEN LowerChar(s)
    ELSE Lower(SubSeq(s, 1, Len(s) \div 2)) \o Lower(SubSeq(s, Len(s) \div 2 + 1, Len(s)))

\* Python's `keyword in text` for strings
Contains(keyword, text) ==
    \E i \in 1..(Len(text) - Len(keyword) + 1) :
        SubSeq(text, i, i + Len(keyword) - 1) = keyword

-----------------------------------------------------------------------------
(* JobClassifier._rule_based_classification                                *)

PRIMARY_WEIGHT == 2
SECONDARY_WEIGHT == 1
ANTI_WEIGHT == 3

\* job_text = (job.title + " " + job.description + " " + job.requirements).lower()
JobText(j) == Lower(j.title \o " " \o j.description \o " " \o j.requirements)

\* the loops over primary_keywords and secondary_keywords: score += weight and
\* matched_keywords.append(keyword) for every keyword found in job_text
RECURSIVE ScanKeywords(_, _, _, _, _)
ScanKeywords(acc, keywords, i, job_text, weight) ==
    IF i > Len(keywords) THEN acc
    ELSE ScanKeywords(
            IF Contains(keywords[i], job_text)
            THEN [ score |-> acc.score + weight,
                   matched_keywords |-> Append(acc.matched_keywords, keywords[i]) ]
            ELSE acc,
            keywords, i + 1, job_text, weight)

\* the loop over anti_keywords: score -= 3 for every anti-keyword found
RECURSIVE ScanAntiKeywords(_, _, _, _)
ScanAntiKeywords(acc, keywords, i, job_text) ==
    IF i > Len(keywords) THEN acc
    ELSE ScanAntiKeywords(
            IF Contains(keywords[i], job_text)
            THEN [ acc EXCEPT !.score = @ - ANTI_WEIGHT ]
            ELSE acc,
            keywords, i + 1, job_text)

\* max_possible_score = len(primary) * 2 + len(secondary)
MaxPossibleScore(patterns) ==
    Len(patterns.primary_keywords) * 2 + Len(patterns.secondary_keywords)

\* the normalization without the floor at 0
NormalizedScoreNoFloor(score, max_possible_score) ==
    IF max_possible_score > 0 THEN << score, max_possible_score >> ELSE Zero

\* normalized_score = max(0, score / max_possible_score) if max_possible_score > 0 else 0
NormalizedScore(score, max_possible_score) ==
    IF max_possible_score > 0
    THEN IF Gt(<< score, max_possible_score >>, Zero)
         THEN << score, max_possible_score >>
         ELSE Zero
    ELSE Zero

\* one iteration of `for role, patterns in self.role_patterns.items()`
ScoreRole(patterns, job_text) ==
    LET afterPrimary == ScanKeywords([ score |-> 0, matched_keywords |-> << >> ],
                                     patterns.primary_keywords, 1, job_text,
                                     PRIMARY_WEIGHT)
        afterSecondary == ScanKeywords(afterPrimary, patterns.secondary_keywords, 1,
                                       job_text, SECONDARY_WEIGHT)
        afterAnti == ScanAntiKeywords(afterSecondary, patterns.anti_keywords, 1,
                                      job_text)
    IN [ score |-> NormalizedScore(afterAnti.score, MaxPossibleScore(patterns)),
         matched_keywords |-> afterAnti.matched_keywords,
         raw_score |-> afterAnti.score ]

RoleScores(j) ==
    LET job_text == JobText(j)
    IN [ r \in DOMAIN role_patterns |-> ScoreRole(role_patterns[r], job_text) ]

\* best_role = max(role_scores.keys(), key=...): the first key, in dict order,
\* whose score no other key exceeds
BestRole(scores) ==
    LET best == CHOOSE i \in 1..Len(PatternRoles) :
                  /\ \A k \in 1..Len(PatternRoles) :
                        ~Gt(scores[PatternRoles[k]].score, scores[PatternRoles[i]].score)
                  /\ \A k \in 1..(i - 1) :
                        Lt(scores[PatternRoles[k]].score, scores[PatternRoles[i]].score)
    IN PatternRoles[best]

DECENT_CONFIDENCE == << 3, 10 >>    \* if confidence < 0.3
OTHER_CONFIDENCE == << 9, 10 >>     \* confidence = 0.9

\* the verdict without the fallback to OTHER for low scores
RuleVerdictNoFallback(scores) ==
    [ role |-> BestRole(scores), confidence |-> scores[BestRole(scores)].score,
      analysis |-> [ method |-> "rule_based",
                     matched_keywords_count |->
                         Len(scores[BestRole(scores)].matched_keywords) ] ]

\* lines 156-179: the verdict of the rule stage, given role_scores
RuleVerdict(scores) ==
    LET best_role == BestRole(scores)
        confidence == scores[best_role].score
    IN IF Lt(confidence, DECENT_CONFIDENCE)
       THEN [ role |-> OTHER_ROLE, confidence |-> OTHER_CONFIDENCE,
              analysis |-> [ method |-> "rule_based", matched_keywords_count |-> 0 ] ]
       ELSE [ role |-> best_role, confidence |-> confidence,
              analysis |-> [ method |-> "rule_based",
                             matched_keywords_count |->
                                 Len(scores[best_role].matched_keywords) ] ]

RuleBasedClassification(j) == RuleVerdict(RoleScores(j))

-----------------------------------------------------------------------------
(* JobClassifier._ai_powered_classification                                *)

\* role_mapping, lines 206-212
role_mapping == [ r \in JobRole |-> r ]

DEFAULT_AI_CONFIDENCE == << 1, 2 >>    \* result.get("confidence", 0.5)
FALLBACK_CONFIDENCE == << 3, 10 >>     \* return JobRole.OTHER, 0.3, {...}

\* The body of the try block, lines 187-224, on a given behaviour of the
\* completion call.  It either returns a verdict (exc = "none") or raises.
\*   kind "call_failed": create() raised (API error, timeout)
\*   kind "not_json":    json.loads raised (no JSON text, or content None)
\*   kind "not_object":  the JSON value is a list, string, number or null:
\*                       result.get raises AttributeError
\*   kind "object":      a JSON object; role is the value of "role" ("<absent>":
\*                       no such key, "<unhashable>": a list or object),
\*                       confidence is the value of "confidence"
TryBody(resp) ==
    CASE resp.kind = "call_failed" -> [ exc |-> "APIError" ]
      [] resp.kind = "not_json" -> [ exc |-> "JSONDecodeError" ]
      [] resp.kind = "not_object" -> [ exc |-> "AttributeError" ]
      [] resp.kind = "object" ->
           IF resp.role = "<unhashable>" THEN [ exc |-> "TypeError" ]
           ELSE IF resp.confidence.tag = "not_numeric" THEN [ exc |-> "ValueError" ]
           ELSE [ exc |-> "none",
                  role |-> LET key == IF resp.role = "<absent>" THEN "other"
                                      ELSE resp.role
                           IN IF key \in DOMAIN role_mapping
                              THEN role_mapping[key] ELSE OTHER_ROLE,
                  confidence |-> IF resp.confidence.tag = "absent"
                                 THEN DEFAULT_AI_CONFIDENCE
                                 ELSE resp.confidence.value ]

\* an except clause that names json.JSONDecodeError only
CaughtJsonErrorsOnly(exc) == exc = "JSONDecodeError"

\* `except Exception as e`, line 226: every exception of the try body is caught
Caught(exc) == TRUE

\* the outcome of _ai_powered_classification: a verdict, or an exception that
\* leaves the method (exc # "none")
AiPoweredClassification(resp) ==
    LET r == TryBody(resp)
    IN IF r.exc = "none"
       THEN [ exc |-> "none", role |-> r.role, confidence |-> r.confidence,
              analysis |-> [ method |-> "ai_powered", error |-> FALSE ] ]
       ELSE IF Caught(r.exc)
       THEN [ exc |-> "none", role |-> OTHER_ROLE, confidence |-> FALLBACK_CONFIDENCE,
              analysis |-> [ method |-> "ai_powered", error |-> TRUE ] ]
       ELSE [ exc |-> r.exc, role |-> OTHER_ROLE, confidence |-> FALLBACK_CONFIDENCE,
              analysis |-> [ method |-> "ai_powered", error |-> TRUE ] ]

-----------------------------------------------------------------------------
(* JobClassifier._combine_classification_results                           *)

REASONABLE_CONFIDENCE == << 1, 2 >>    \* rule_confidence > 0.5 and ai_confidence > 0.5

Verdict(v) == [ role |-> v.role, confidence |-> v.confidence, analysis |-> v.analysis ]

\* arbitration that prefers the rule verdict on equal confidences (>=)
CombinePreferringRuleOnTie(rule_result, ai) ==
    IF /\ rule_result.role = ai.role
       /\ Gt(rule_result.confidence, REASONABLE_CONFIDENCE)
       /\ Gt(ai.confidence, REASONABLE_CONFIDENCE)
    THEN [ role |-> rule_result.role,
           confidence |-> Mean(rule_result.confidence, ai.confidence),
           analysis |-> [ method |-> "combined", agreement |-> TRUE,
                          rule_analysis |-> rule_result.analysis,
                          ai_analysis |-> ai.analysis ] ]
    ELSE LET final == IF Ge(rule_result.confidence, ai.confidence)
                      THEN rule_result ELSE ai
         IN [ role |-> final.role,
              confidence |-> final.confidence,
              analysis |-> [ method |-> "combined", agreement |-> FALSE,
                             chosen |-> IF Ge(rule_result.confidence, ai.confidence)
                                        THEN "rule_based" ELSE "ai_powered",
                             rule_result |-> << rule_result.role, rule_result.confidence >>,
                             ai_result |-> << ai.role, ai.confidence >>,
                             final_analysis |-> final.analysis ] ]

CombineClassificationResults(rule_result, ai) ==
    IF /\ rule_result.role = ai.role
       /\ Gt(rule_result.confidence, REASONABLE_CONFIDENCE)
       /\ Gt(ai.confidence, REASONABLE_CONFIDENCE)
    THEN [ role |-> rule_result.role,
           confidence |-> Mean(rule_result.confidence, ai.confidence),
           analysis |-> [ method |-> "combined", agreement |-> TRUE,
                          rule_analysis |-> rule_result.analysis,
                          ai_analysis |-> ai.analysis ] ]
    ELSE LET final == IF Gt(rule_result.confidence, ai.confidence)
                      THEN rule_result ELSE ai
         IN [ role |-> final.role,
              confidence |-> final.confidence,
              analysis |-> [ method |-> "combined", agreement |-> FALSE,
                             chosen |-> IF Gt(rule_result.confidence, ai.confidence)
                                        THEN "rule_based" ELSE "ai_powered",
                             rule_result |-> << rule_result.role, rule_result.confidence >>,
                             ai_result |-> << ai.role, ai.confidence >>,
                             final_analysis |-> final.analysis ] ]

-----------------------------------------------------------------------------
(* JobClassifier.classify_job and should_apply_to_job                      *)

HIGH_CONFIDENCE == << 8, 10 >>         \* if rule_based_result[1] > 0.8
DEFAULT_MIN_CONFIDENCE == << 6, 10 >>  \* min_confidence: float = 0.6

\* the short-circuit test written with >= instead of >
SkipsModelAtOrAbove(rule_result) == Ge(rule_result.confidence, HIGH_CONFIDENCE)

\* line 105: the rule-stage verdict is returned without calling the model
SkipsModel(rule_result) == Gt(rule_result.confidence, HIGH_CONFIDENCE)

\* the test of line 326 without its role == JobRole.OTHER half
ShouldApplyIgnoringRole(role, confidence, minimum) ==
    ~Lt(confidence, minimum)

\* lines 326-329
ShouldApply(role, confidence, minimum) ==
    ~(role = OTHER_ROLE \/ Lt(confidence, minimum))

-----------------------------------------------------------------------------
(* Inputs of the classifier: postings and behaviours of the completion call *)

DS_PRIMARY_TEXT ==
    "Data science, analytics, statistical analysis, predictive modeling, " \o
    "data mining, business intelligence; data analyst, quantitative analyst " \o
    "or research scientist."
DS_SECONDARY_TEXT_A ==
    " Python, R, SQL, Tableau, pandas, NumPy, SciPy, statistics"
DS_SECONDARY_TEXT_B ==
    ", hypothesis testing, A/B testing, visualization, reporting, dashboard, " \o
    "insights, experimentation."

Titles == { "Data Scientist", "Cloud Engineer", "Sales Lead", "Chef" }
Descriptions ==
    { "",
      "Manage Kubernetes and Docker on AWS",
      "Marketing and sales of kitchen goods",
      DS_PRIMARY_TEXT,
      DS_PRIMARY_TEXT \o DS_SECONDARY_TEXT_A,
      DS_PRIMARY_TEXT \o DS_SECONDARY_TEXT_A \o DS_SECONDARY_TEXT_B }
Requirements ==
    { "",
      "Python, SQL",
      "DevOps: GCP, Azure, Terraform, Ansible, Jenkins, CI/CD, SRE" }

Postings ==
    [ title : Titles, description : Descriptions, requirements : Requirements ]

MinConfidences == { DEFAULT_MIN_CONFIDENCE, << 0, 1 >>, << 9, 10 >> }

\* values of the "role" key of the model's JSON object
ResponseRoles == JobRole \cup { "manager", "<absent>", "<unhashable>" }

\* values of the "confidence" key of the model's JSON object
ResponseConfidences ==
    { [ tag |-> "absent", value |-> Zero ],
      [ tag |-> "not_numeric", value |-> Zero ] }
    \cup { [ tag |-> "number", value |-> v ] :
             v \in { << -1, 2 >>, << 2, 5 >>, << 1, 2 >>, << 3, 5 >>, << 9, 10 >>,
                     << 1, 1 >>, << 3, 2 >>, NaN } }

NoResponse == [ kind |-> "none", role |-> "<absent>",
                confidence |-> [ tag |-> "absent", value |-> Zero ] ]

Responses ==
    { [ NoResponse EXCEPT !.kind = k ] : k \in { "call_failed", "not_json", "not_object" } }
    \cup [ kind : { "object" }, role : ResponseRoles, confidence : ResponseConfidences ]

NoVerdict == [ role |-> OTHER_ROLE, confidence |-> Zero,
               analysis |-> [ method |-> "none" ] ]
NoScores == [ r \in DOMAIN role_patterns |->
                [ score |-> Zero, matched_keywords |-> << >>, raw_score |-> 0 ] ]

-----------------------------------------------------------------------------
(* ApplicationTracker: tables applications and application_events       *)

\* job.url of the postings the scraper can find
JobUrls == { "https://jobs.example.com/1", "https://jobs.example.com/2" }

COVER_LETTER_LIMIT == 1000     \* cover_letter[:1000]

\* cover letters are given by their length; "" is length 0
CoverLetters == { 0, 1500 }
ResumePaths == { "resumes/a.json", "resumes/b.json" }

NULL == "NULL"

\* count of `SELECT COUNT(*) FROM applications WHERE job_url = ?`
CountByUrl(rows, job_url) ==
    Cardinality({ i \in 1..Len(rows) : rows[i].job_url = job_url })

\* a has_applied_to_job that counts only the rows with status 'Applied'
HasAppliedSuccessfully(rows, job_url) ==
    \E i \in 1..Len(rows) : rows[i].job_url = job_url /\ rows[i].status = "Applied"

\* has_applied_to_job: count > 0
HasAppliedToJob(rows, job_url) == CountByUrl(rows, job_url) > 0

\* a schema whose job_url column is not UNIQUE: no INSERT is refused
NoUniqueConstraint(rows, job_url) == FALSE

\* a uniqueness that covers only the rows with status 'Applied'
UniqueAmongApplied(rows, job_url) ==
    \E i \in 1..Len(rows) : rows[i].job_url = job_url /\ rows[i].status = "Applied"

\* `job_url TEXT UNIQUE`: the INSERT raises sqlite3.IntegrityError when a row
\* with this job_url exists
UniqueViolation(rows, job_url) == \E i \in 1..Len(rows) : rows[i].job_url = job_url

\* the row add_application inserts; id is the AUTOINCREMENT key
NewApplication(rows, job_url, resume_path, cover_letter, success, now) ==
    [ id |-> Len(rows) + 1,
      job_url |-> job_url,
      application_date |-> now,
      status |-> IF success THEN "Applied" ELSE "Failed",
      notes |-> << >>,
      resume_version |-> resume_path,
      cover_letter |-> IF cover_letter = 0 THEN NULL
                       ELSE IF cover_letter > COVER_LETTER_LIMIT
                            THEN COVER_LETTER_LIMIT ELSE cover_letter,
      follow_up_date |-> NULL,
      updated_at |-> now ]

\* add_application: both INSERTs and the commit, or nothing on IntegrityError
AddApplication(job_url, resume_path, cover_letter, success) ==
    /\ tracker_calls' = tracker_calls + 1
    /\ IF UniqueViolation(applications, job_url)
       THEN /\ UNCHANGED << applications, application_events >>
            /\ last_op' = [ op |-> "add_application", refused |-> TRUE,
                           job_url |-> job_url ]
       ELSE /\ applications' =
                 Append(applications,
                        NewApplication(applications, job_url, resume_path,
                                       cover_letter, success, tracker_calls'))
            /\ application_events' =
                 Append(application_events,
                        [ application_id |-> Len(applications) + 1,
                          event_type |-> IF success THEN "applied" ELSE "failed" ])
            /\ last_op' = [ op |-> "add_application", refused |-> FALSE,
                           job_url |-> job_url ]

\* update_application_status: UPDATE ... WHERE id = ?, then INSERT the event
UpdateApplicationStatus(application_id, status, notes) ==
    /\ tracker_calls' = tracker_calls + 1
    /\ applications' =
         [ i \in 1..Len(applications) |->
             IF applications[i].id = application_id
             THEN [ applications[i] EXCEPT !.status = status,
                                           !.notes = << notes >>,
                                           !.updated_at = tracker_calls' ]
             ELSE applications[i] ]
    /\ application_events' =
         Append(application_events,
                [ application_id |-> application_id, event_type |-> status ])
    /\ last_op' = [ op |-> "update_application_status", refused |-> FALSE,
                   job_url |-> NULL ]

\* mark_follow_up_sent: UPDATE ... WHERE id = ?, then INSERT the event
MarkFollowUpSent(application_id, notes) ==
    /\ tracker_calls' = tracker_calls + 1
    /\ applications' =
         [ i \in 1..Len(applications) |->
             IF applications[i].id = application_id
             THEN [ applications[i] EXCEPT !.follow_up_date = tracker_calls',
                                           !.notes = Append(@, "Follow-up sent: " \o notes) ]
             ELSE applications[i] ]
    /\ application_events' =
         Append(application_events,
                [ application_id |-> application_id, event_type |-> "follow_up" ])
    /\ last_op' = [ op |-> "mark_follow_up_sent", refused |-> FALSE,
                   job_url |-> NULL ]

TrackerInit ==
    /\ applications = << >>
    /\ application_events = << >>
    /\ tracker_calls = 0
    /\ last_op = [ op |-> "none", refused |-> FALSE, job_url |-> NULL ]

-----------------------------------------------------------------------------
(* State of run_company_applications before the first run                  *)

MaxCompanies == 2
MaxRuns == 2
MaxDailyLimit == 2

\* get_target_companies(): the active, valid entries of the companies file
TargetCompanies == [ i \in 1..MaxCompanies |-> i ]

\* the locals of run_company_applications while it is not running
RunLocalsIdle ==
    /\ pc = "idle"
    /\ runs = 0
    /\ company_index = 0
    /\ applications_today = 0
    /\ scraper = "unbound"
    /\ open_sessions = 0
    /\ relevant_jobs = << >>
    /\ job_index = 0
    /\ apply_calls = [ u \in JobUrls |-> 0 ]
    /\ exception_caught = FALSE
    /\ skip_all_at = -1
    /\ company_applications = 0

RunIdle ==
    /\ RunLocalsIdle
    /\ max_applications_per_day = 1
    /\ require_manual_review = TRUE

-----------------------------------------------------------------------------
(* CompanyJobAutomationSystem._passes_company_filters and extract_salary   *)

Digits == "0123456789"
IsDigit(c) == \E d \in 1..Len(Digits) : CharAt(Digits, d) = c
DigitValue(c) == (CHOOSE d \in 1..Len(Digits) : CharAt(Digits, d) = c) - 1

\* salary_str.replace(',', '')
RECURSIVE RemoveCommas(_)
RemoveCommas(s) ==
    IF Len(s) = 0 THEN ""
    ELSE (IF CharAt(s, 1) = "," THEN "" ELSE CharAt(s, 1))
         \o RemoveCommas(SubSeq(s, 2, Len(s)))

\* re.findall(r'\d+', s) with every match converted by int(): the maximal runs of
\* digits, left to right. `run` is the value of the run being read, -1 outside
RECURSIVE FindAllNumbers(_, _, _, _)
FindAllNumbers(s, i, run, numbers) ==
    IF i > Len(s)
    THEN IF run >= 0 THEN Append(numbers, run) ELSE numbers
    ELSE IF IsDigit(CharAt(s, i))
         THEN FindAllNumbers(s, i + 1,
                             (IF run >= 0 THEN 10 * run ELSE 0) + DigitValue(CharAt(s, i)),
                             numbers)
         ELSE FindAllNumbers(s, i + 1, -1,
                             IF run >= 0 THEN Append(numbers, run) ELSE numbers)

SalaryNumbers(salary_str) == FindAllNumbers(RemoveCommas(salary_str), 1, -1, << >>)

\* extract_salary with the first number in place of the largest
ExtractFirstNumber(salary_str) ==
    IF SalaryNumbers(salary_str) # << >> THEN SalaryNumbers(salary_str)[1] ELSE 0

\* extract_salary: max(int(num) for num in numbers) if numbers else 0
ExtractSalary(salary_str) ==
    LET numbers == SalaryNumbers(salary_str)
    IN IF numbers # << >>
       THEN CHOOSE m \in { numbers[i] : i \in 1..Len(numbers) } :
                \A i \in 1..Len(numbers) : numbers[i] <= m
       ELSE 0

senior_keywords ==
    << "senior", "sr.", "principal", "staff", "lead", "manager",
       "director", "architect", "head of", "vp", "vice president",
       "10+ years", "15+ years", "phd required" >>

\* is_too_senior(job)
IsTooSenior(j) ==
    LET job_text == Lower(j.title \o " " \o j.description)
    IN \E k \in 1..Len(senior_keywords) : Contains(senior_keywords[k], job_text)

\* the salary test of _passes_company_filters; a str is truthy when not empty
SalaryTooLow(j, minimum) ==
    j.salary # "" /\ ExtractSalary(j.salary) < minimum

\* the location test: preferred_locations given, job.location not empty and no
\* preferred location is a substring of it
LocationNotPreferred(j, cfg) ==
    /\ cfg.preferred_locations # << >>
    /\ j.location # ""
    /\ ~\E k \in 1..Len(cfg.preferred_locations) :
           Contains(Lower(cfg.preferred_locations[k]), Lower(j.location))

DEFAULT_SALARY_MIN == 70000

FilterSalaries ==
    { "", "Competitive", "Up to $45,000", "$60,000 - $90,000",
      "$90,000 - $60,000", "$120,000", "DOE, plus equity" }
FilterTitles == { "Data Scientist", "Senior Data Scientist" }
FilterLocations == { "", "Remote", "Austin, TX" }
PreferredLocations == { << >>, << "remote" >>, << "Berlin", "Austin" >> }
SalaryMins == { DEFAULT_SALARY_MIN, 100000 }

FilterJobs ==
    [ title : FilterTitles, description : { "Build models" },
      location : FilterLocations, salary : FilterSalaries ]

FilterIdle ==
    /\ filter_job = [ title |-> "", description |-> "", location |-> "", salary |-> "" ]
    /\ company_config = [ preferred_locations |-> << >> ]
    /\ salary_min = DEFAULT_SALARY_MIN
    /\ fpc = "idle"
    /\ extracted_salary = NULL
    /\ passes = FALSE

-----------------------------------------------------------------------------
(* CompanyApplier: the steps of apply_to_job                               *)

MaxFileInputs == 2
MaxTextAreas == 2
MaxFields == 2

\* <input type="file"> elements as the driver reports them: is_displayed() is
\* "true", "false" or raises; is_enabled is the state of the element, which
\* _handle_file_uploads never asks for; get_attribute gives NULL for a missing
\* attribute;
\* send_keys succeeds or raises; tempfile says whether the cover letter file
\* could be written
FileInputs ==
    { [ is_displayed |-> "false",  is_enabled |-> "true", accept |-> NULL,   name |-> "resume",  id |-> NULL,
        send_keys |-> "ok", tempfile |-> "ok" ],
      [ is_displayed |-> "raises", is_enabled |-> "true", accept |-> NULL,   name |-> "resume",  id |-> NULL,
        send_keys |-> "ok", tempfile |-> "ok" ],
      [ is_displayed |-> "true",   is_enabled |-> "true", accept |-> ".pdf", name |-> "Resume",  id |-> "cv-upload",
        send_keys |-> "ok", tempfile |-> "ok" ],
      [ is_displayed |-> "true",   is_enabled |-> "true", accept |-> ".pdf", name |-> "resume",  id |-> NULL,
        send_keys |-> "raises", tempfile |-> "ok" ],
      [ is_displayed |-> "true",   is_enabled |-> "true", accept |-> NULL,   name |-> "coverLetter", id |-> NULL,
        send_keys |-> "ok", tempfile |-> "ok" ],
      [ is_displayed |-> "true",   is_enabled |-> "true", accept |-> NULL,   name |-> "coverLetter", id |-> NULL,
        send_keys |-> "ok", tempfile |-> "fails" ],
      [ is_displayed |-> "true",   is_enabled |-> "true", accept |-> NULL,   name |-> "attachment", id |-> NULL,
        send_keys |-> "ok", tempfile |-> "ok" ],
      [ is_displayed |-> "true",   is_enabled |-> "false", accept |-> ".pdf", name |-> "resume", id |-> NULL,
        send_keys |-> "ok", tempfile |-> "ok" ] }

\* get_attribute(x) or ""
OrEmpty(attribute) == IF attribute = NULL THEN "" ELSE attribute

\* any(word in context for word in words)
AnyWordIn(words, context) == \E k \in 1..Len(words) : Contains(words[k], context)

\* lines 376-380: context of a file input
FileInputContext(file_input) ==
    Lower(OrEmpty(file_input.accept) \o " " \o OrEmpty(file_input.name) \o " "
          \o OrEmpty(file_input.id))

\* lines 382-408: what the try block does with one displayed file input
\* ("uploaded", "nothing" when no cover letter file could be made, "caught")
UploadOne(file_input) ==
    LET context == FileInputContext(file_input)
    IN IF AnyWordIn(<< "resume", "cv" >>, context)
       THEN IF file_input.send_keys = "ok" THEN "uploaded" ELSE "caught"
       ELSE IF AnyWordIn(<< "cover", "letter" >>, context)
            THEN IF file_input.tempfile = "fails" THEN "nothing"
                 ELSE IF file_input.send_keys = "ok" THEN "uploaded" ELSE "caught"
            ELSE IF file_input.send_keys = "ok" THEN "uploaded" ELSE "caught"

\* UploadOne, tabulated over the file inputs of the model
UploadOutcome == [ file_input \in FileInputs |-> UploadOne(file_input) ]

\* the loop of _handle_file_uploads from input i on; acc is
\* [ raised, files_uploaded, log, sent ], sent being the positions of the inputs
\* send_keys was called on
RECURSIVE UploadLoop(_, _, _)
UploadLoop(file_inputs, i, acc) ==
    IF i > Len(file_inputs) THEN acc
    ELSE LET file_input == file_inputs[i]
         IN IF file_input.is_displayed = "raises"
            THEN [ acc EXCEPT !.raised = TRUE,
                              !.log = Append(@, "upload_step_exception") ]
            ELSE IF file_input.is_displayed = "false"
                 THEN UploadLoop(file_inputs, i + 1, acc)
                 ELSE LET done == UploadOutcome[file_input]
                      IN UploadLoop(file_inputs, i + 1,
                            IF done = "uploaded"
                            THEN [ acc EXCEPT !.files_uploaded = @ + 1,
                                              !.log = Append(@, "file_uploaded"),
                                              !.sent = Append(@, i) ]
                            ELSE IF done = "caught"
                                 THEN [ acc EXCEPT
                                          !.log = Append(@, "upload_step_exception"),
                                          !.sent = Append(@, i) ]
                                 ELSE acc)

\* _handle_file_uploads(resume_path, cover_letter)
HandleFileUploads(file_inputs) ==
    UploadLoop(file_inputs, 1,
               [ raised |-> FALSE, files_uploaded |-> 0, log |-> << >>, sent |-> << >> ])

FileInputLists == UNION { [ 1..n -> FileInputs ] : n \in 0..MaxFileInputs }

\* <textarea> elements as the driver reports them; usable stands for
\* is_displayed() and is_enabled()
TextAreas ==
    { [ usable |-> "false",  placeholder |-> NULL, name |-> NULL, id |-> NULL,
        send_keys |-> "ok" ],
      [ usable |-> "raises", placeholder |-> NULL, name |-> NULL, id |-> NULL,
        send_keys |-> "ok" ],
      [ usable |-> "true", placeholder |-> "Cover Letter", name |-> NULL, id |-> NULL,
        send_keys |-> "ok" ],
      [ usable |-> "true", placeholder |-> "", name |-> "message", id |-> NULL,
        send_keys |-> "raises" ],
      [ usable |-> "true", placeholder |-> NULL, name |-> NULL, id |-> "coverLetter",
        send_keys |-> "ok" ],
      [ usable |-> "true", placeholder |-> NULL, name |-> "", id |-> NULL,
        send_keys |-> "ok" ],
      [ usable |-> "true", placeholder |-> NULL, name |-> "referral", id |-> NULL,
        send_keys |-> "ok" ],
      [ usable |-> "true", placeholder |-> "Your answer", name |-> "cover_letter",
        id |-> NULL, send_keys |-> "ok" ] }

TextAreaLists == UNION { [ 1..n -> TextAreas ] : n \in 0..MaxTextAreas }

TYPE_ERROR == "<TypeError>"

\* lines 444-448: placeholder or "" + name or "" + id or "", which Python reads
\* as placeholder or ("" + name) or ("" + id) or ""; "" + None raises TypeError
TextAreaContext(textarea) ==
    IF textarea.placeholder # NULL /\ textarea.placeholder # ""
    THEN Lower(textarea.placeholder)
    ELSE IF textarea.name = NULL THEN TYPE_ERROR
    ELSE IF textarea.name # "" THEN Lower(textarea.name)
    ELSE IF textarea.id = NULL THEN TYPE_ERROR
    ELSE Lower(textarea.id)

cover_letter_words == << "cover", "letter", "message", "additional", "why" >>

\* lines 444-450 for one usable textarea: building the context raises, or the
\* context names a cover letter field, or it does not
TextAreaKind ==
    [ textarea \in TextAreas |->
        IF TextAreaContext(textarea) = TYPE_ERROR THEN "raises"
        ELSE IF AnyWordIn(cover_letter_words, TextAreaContext(textarea))
             THEN "cover_letter" ELSE "other" ]

\* the loop of _add_cover_letter_text from textarea i on; acc is
\* [ raised, log, cleared, filled ]: cleared and filled are the positions of the
\* textareas clear() was called on and send_keys(cover_letter) succeeded on
RECURSIVE CoverLetterLoop(_, _, _)
CoverLetterLoop(text_areas, i, acc) ==
    IF i > Len(text_areas) THEN acc
    ELSE LET textarea == text_areas[i]
         IN IF textarea.usable = "raises"
            THEN [ acc EXCEPT !.raised = TRUE,
                              !.log = Append(@, "cover_text_step_exception") ]
            ELSE IF textarea.usable = "false"
                 THEN CoverLetterLoop(text_areas, i + 1, acc)
            ELSE IF TextAreaKind[textarea] = "raises"
                 THEN [ acc EXCEPT !.raised = TRUE,
                                   !.log = Append(@, "cover_text_step_exception") ]
            ELSE IF TextAreaKind[textarea] = "other"
                 THEN CoverLetterLoop(text_areas, i + 1, acc)
            ELSE IF textarea.send_keys = "ok"
                 THEN [ acc EXCEPT !.log = Append(@, "cover_letter_text"),
                                   !.cleared = Append(@, i),
                                   !.filled = Append(@, i) ]
                 ELSE CoverLetterLoop(text_areas, i + 1,
                        [ acc EXCEPT !.log = Append(@, "cover_text_step_exception"),
                                     !.cleared = Append(@, i) ])

\* _add_cover_letter_text(cover_letter)
AddCoverLetterText(text_areas) ==
    CoverLetterLoop(text_areas, 1,
                    [ raised |-> FALSE, log |-> << >>, cleared |-> << >>,
                      filled |-> << >> ])

\* the form counts as filled whatever fields_filled is
FormFilledAlways(n) == TRUE

\* _fill_application_form: return fields_filled > 0
FormFilled(n) == n > 0

success_indicators ==
    << "thank you", "application submitted", "application received",
       "successfully submitted", "we'll be in touch", "confirmation", "success" >>
success_url_words == << "success", "thank", "confirmation" >>

WEBDRIVER_EXCEPTION == "<WebDriverException>"

PageSources ==
    { "<h1>Thank You!</h1>", "<p>Fix the errors</p>", WEBDRIVER_EXCEPTION }
CurrentUrls ==
    { "https://a.io/apply", "https://a.io/Confirmation", WEBDRIVER_EXCEPTION }

\* success reported without looking at the page
SubmissionAssumedSuccessful(source, url) == TRUE

\* _check_submission_success: the page source is scanned first, then the URL;
\* an exception while reading either gives False
CheckSubmissionSuccess(source, url) ==
    IF source = WEBDRIVER_EXCEPTION THEN FALSE
    ELSE IF AnyWordIn(success_indicators, Lower(source)) THEN TRUE
    ELSE IF url = WEBDRIVER_EXCEPTION THEN FALSE
    ELSE AnyWordIn(success_url_words, Lower(url))

ApplierIdle ==
    /\ apc = "idle"
    /\ upload_required = FALSE
    /\ browser_log = << >>
    /\ fields_filled = 0
    /\ files_uploaded = NULL
    /\ page_source = NULL
    /\ current_url = NULL
    /\ apply_result = "pending"

-----------------------------------------------------------------------------
(* CompanyManager.get_target_companies                                     *)

MaxEntries == 2

\* an entry of the companies file; NULL stands for a key the entry lacks
CompanyEntries ==
    [ name : { NULL, "Stripe", "Vercel" },
      careers_url : { NULL, "https://example.com/jobs" },
      active : { NULL, "true", "false" } ]

FILE_NOT_FOUND == "FileNotFoundError"
INVALID_JSON == "JSONDecodeError"

CompaniesFiles ==
    { [ read |-> r, companies |-> << >> ] : r \in { FILE_NOT_FOUND, INVALID_JSON } }
    \cup { [ read |-> "ok", companies |-> c ] :
              c \in UNION { [ 1..n -> CompanyEntries ] : n \in 0..MaxEntries } }

\* company.get('active', True)
IsActive(company) == company.active # "false"

\* _validate_company_config: both required fields are keys of the entry
ValidateCompanyConfig(company) ==
    company.name # NULL /\ company.careers_url # NULL

\* the loop of get_target_companies, lines 172-176
RECURSIVE FilterActive(_, _, _)
FilterActive(companies, i, acc) ==
    IF i > Len(companies) THEN acc
    ELSE FilterActive(companies, i + 1,
            IF IsActive(companies[i])
            THEN IF ValidateCompanyConfig(companies[i])
                 THEN [ acc EXCEPT !.active_companies = Append(@, companies[i]) ]
                 ELSE [ acc EXCEPT !.warnings = @ + 1 ]
            ELSE acc)

\* get_target_companies: [] for a missing or unparsable file
GetTargetCompanies(file) ==
    IF file.read \in { FILE_NOT_FOUND, INVALID_JSON }
    THEN [ active_companies |-> << >>, warnings |-> 0 ]
    ELSE FilterActive(file.companies, 1,
                      [ active_companies |-> << >>, warnings |-> 0 ])

ManagerIdle ==
    /\ companies_file = [ read |-> "ok", companies |-> << >> ]
    /\ mpc = "idle"
    /\ active_companies = << >>
    /\ load_raised = FALSE
    /\ warnings_logged = 0
    /\ manager_calls = 0
    /\ disabled_companies = {}

\* DailyJobScheduler.__init__, lines 16-25, before any coroutine of
\* _run_daily_job_search exists
MaxExecutions == 2
Executions == 1..MaxExecutions

SchedulerIdle ==
    /\ is_running = FALSE
    /\ exec_pc = [ e \in Executions |-> "none" ]
    /\ stats = [ total_runs |-> 0, successful_runs |-> 0 ]
    /\ skipped_executions = 0

\* no form helper has been called
HelperIdle ==
    /\ helper = "none"
    /\ hpc = "idle"
    /\ page_elements = << >>
    /\ selector_index = 0
    /\ element_actions = << >>
    /\ helper_result = "pending"

ExtIdle == FilterIdle /\ ApplierIdle /\ ManagerIdle /\ SchedulerIdle /\ HelperIdle

-----------------------------------------------------------------------------
(* One call of should_apply_to_job(job, min_confidence)                    *)

ClassifierIdle ==
    /\ job = [ title |-> "", description |-> "", requirements |-> "" ]
    /\ min_confidence = DEFAULT_MIN_CONFIDENCE
    /\ cpc = "idle"
    /\ role_scores = NoScores
    /\ rule_based_result = NoVerdict
    /\ ai_response = NoResponse
    /\ ai_result = NoVerdict
    /\ final_result = NoVerdict
    /\ decision = FALSE
    /\ model_calls = 0
    /\ raised = FALSE

InitClassifier ==
    /\ job \in Postings
    /\ min_confidence \in MinConfidences
    /\ cpc = "start"
    /\ role_scores = NoScores
    /\ rule_based_result = NoVerdict
    /\ ai_response = NoResponse
    /\ ai_result = NoVerdict
    /\ final_result = NoVerdict
    /\ decision = FALSE
    /\ model_calls = 0
    /\ raised = FALSE
    /\ TrackerInit
    /\ RunIdle
    /\ ExtIdle

\* classify_job line 102: rule_based_result = self._rule_based_classification(job)
RuleStage ==
    /\ cpc = "start"
    /\ role_scores' = RoleScores(job)
    /\ rule_based_result' = RuleVerdict(role_scores')
    /\ cpc' = "rule_done"
    /\ UNCHANGED << job, min_confidence, ai_response, ai_result, final_result,
                    decision, model_calls, raised, trackerVars, runVars, extVars >>

\* classify_job lines 105-106: return rule_based_result
ShortCircuit ==
    /\ cpc = "rule_done"
    /\ SkipsModel(rule_based_result)
    /\ final_result' = rule_based_result
    /\ cpc' = "classified"
    /\ UNCHANGED << job, min_confidence, role_scores, rule_based_result, ai_response,
                    ai_result, decision, model_calls, raised, trackerVars, runVars, extVars >>

\* classify_job line 109: ai_result = self._ai_powered_classification(job); the
\* completion call is made once and behaves in one of the ways of Responses
ModelStage ==
    /\ cpc = "rule_done"
    /\ ~SkipsModel(rule_based_result)
    /\ \E resp \in Responses :
          LET out == AiPoweredClassification(resp)
          IN /\ ai_response' = resp
             /\ model_calls' = model_calls + 1
             /\ IF out.exc = "none"
                THEN /\ ai_result' = Verdict(out)
                     /\ cpc' = "ai_done"
                     /\ raised' = FALSE
                ELSE /\ ai_result' = ai_result
                     /\ cpc' = "raised"
                     /\ raised' = TRUE
    /\ UNCHANGED << job, min_confidence, role_scores, rule_based_result, final_result,
                    decision, trackerVars, runVars, extVars >>

\* classify_job lines 112-116
Arbitration ==
    /\ cpc = "ai_done"
    /\ final_result' = CombineClassificationResults(rule_based_result, ai_result)
    /\ cpc' = "classified"
    /\ UNCHANGED << job, min_confidence, role_scores, rule_based_result, ai_response,
                    ai_result, decision, model_calls, raised, trackerVars, runVars, extVars >>

\* should_apply_to_job lines 323-329
Decide ==
    /\ cpc = "classified"
    /\ decision' = ShouldApply(final_result.role, final_result.confidence, min_confidence)
    /\ cpc' = "returned"
    /\ UNCHANGED << job, min_confidence, role_scores, rule_based_result, ai_response,
                    ai_result, final_result, model_calls, raised, trackerVars, runVars, extVars >>

NextClassifier == RuleStage \/ ShortCircuit \/ ModelStage \/ Arbitration \/ Decide

SpecClassifier == InitClassifier /\ [][NextClassifier]_vars

-----------------------------------------------------------------------------
(* The tracker driven directly: any sequence of its three operations       *)

MaxTrackerCalls == 4

Statuses == { "Interview", "Rejected" }

InitTracker ==
    /\ ClassifierIdle
    /\ TrackerInit
    /\ RunIdle
    /\ ExtIdle

TrackerAddApplication ==
    /\ tracker_calls < MaxTrackerCalls
    /\ \E job_url \in JobUrls, resume_path \in ResumePaths,
          cover_letter \in CoverLetters, success \in BOOLEAN :
          AddApplication(job_url, resume_path, cover_letter, success)
    /\ UNCHANGED << classifierVars, runVars, extVars >>

TrackerUpdateApplicationStatus ==
    /\ tracker_calls < MaxTrackerCalls
    /\ \E application_id \in 1..(Len(applications) + 1), status \in Statuses :
          UpdateApplicationStatus(application_id, status, "")
    /\ UNCHANGED << classifierVars, runVars, extVars >>

TrackerMarkFollowUpSent ==
    /\ tracker_calls < MaxTrackerCalls
    /\ \E application_id \in 1..(Len(applications) + 1) :
          MarkFollowUpSent(application_id, "")
    /\ UNCHANGED << classifierVars, runVars, extVars >>

NextTracker ==
    TrackerAddApplication \/ TrackerUpdateApplicationStatus \/ TrackerMarkFollowUpSent

SpecTracker == InitTracker /\ [][NextTracker]_vars

-----------------------------------------------------------------------------
(* CompanyJobAutomationSystem.run_company_applications                     *)

\* sequences of distinct job URLs: _extract_job_links collects the links in a
\* set, and classify_and_filter_jobs keeps a sub-list sorted by confidence
DistinctUrlSeqs ==
    { q \in UNION { [ 1..n -> JobUrls ] : n \in 0..Cardinality(JobUrls) } :
        \A i, k \in 1..Len(q) : q[i] = q[k] => i = k }

InitRun ==
    /\ ClassifierIdle
    /\ TrackerInit
    /\ ExtIdle
    /\ pc = "idle"
    /\ runs = 0
    /\ max_applications_per_day \in 1..MaxDailyLimit
    /\ require_manual_review \in BOOLEAN
    /\ company_index = 0
    /\ applications_today = 0
    /\ scraper = "unbound"
    /\ open_sessions = 0
    /\ relevant_jobs = << >>
    /\ job_index = 0
    /\ apply_calls = [ u \in JobUrls |-> 0 ]
    /\ exception_caught = FALSE
    /\ skip_all_at = -1
    /\ company_applications = 0

\* lines 96-99: applications_today = 0; target_companies = get_target_companies()
StartRun ==
    /\ pc \in { "idle", "done", "crashed" }
    /\ runs < MaxRuns
    /\ runs' = runs + 1
    /\ applications_today' = 0
    /\ company_index' = 1
    /\ scraper' = "unbound"
    /\ relevant_jobs' = << >>
    /\ job_index' = 0
    /\ exception_caught' = FALSE
    /\ skip_all_at' = -1
    /\ company_applications' = 0
    /\ pc' = "company_head"
    /\ UNCHANGED << max_applications_per_day, require_manual_review, open_sessions,
                    apply_calls, classifierVars, trackerVars, extVars >>

\* lines 101-104: the head of the company loop; the loop ends when the list is
\* exhausted or the daily limit is reached
CompanyLoopHead ==
    /\ pc = "company_head"
    /\ IF \/ company_index > Len(TargetCompanies)
          \/ applications_today >= max_applications_per_day
       THEN pc' = "report"
       ELSE pc' = "create_scraper"
    /\ UNCHANGED << runs, max_applications_per_day, require_manual_review,
                    company_index, applications_today, scraper, open_sessions,
                    relevant_jobs, job_index, apply_calls,
                    classifierVars, trackerVars, extVars,
                    exception_caught, skip_all_at, company_applications >>

\* `except Exception ... continue` (lines 163-165): on to the next company;
\* scraper.close() is not reached
\* without the try/except of the company loop the exception leaves the run
ExceptionEndsRun ==
    /\ exception_caught' = TRUE
    /\ pc' = "crashed"
    /\ UNCHANGED company_index

ContinueAfterException ==
    /\ exception_caught' = TRUE
    /\ company_index' = company_index + 1
    /\ pc' = "company_head"

\* lines 110-113: scraper = CompanyScraper(...).  setup_driver starts Chrome
\* (webdriver.Chrome, line 64), which may raise: no session exists then and
\* `scraper` is not bound.  No application has been made to this company yet.
CreateScraper ==
    /\ pc = "create_scraper"
    /\ \E outcome \in { "ok", "chrome_failed" } :
          CASE outcome = "ok" ->
                 /\ open_sessions' = open_sessions + 1
                 /\ scraper' = "open"
                 /\ pc' = "discover"
                 /\ UNCHANGED << company_index, exception_caught >>
            [] outcome = "chrome_failed" ->
                 /\ UNCHANGED << open_sessions, scraper >>
                 /\ ContinueAfterException
    /\ company_applications' = 0
    /\ UNCHANGED << runs, max_applications_per_day, require_manual_review,
                    applications_today, relevant_jobs, job_index, apply_calls,
                    skip_all_at, classifierVars, trackerVars, extVars >>

\* lines 116-123: jobs = await scraper.discover_jobs() (which returns [] on its
\* own errors); `if not jobs: continue`; relevant_jobs =
\* classify_and_filter_jobs(jobs, company_config), which may raise
DiscoverAndClassify ==
    /\ pc = "discover"
    /\ \E outcome \in { "no_jobs", "classified", "raised" } :
          CASE outcome = "no_jobs" ->
                 /\ company_index' = company_index + 1
                 /\ pc' = "company_head"
                 /\ UNCHANGED << relevant_jobs, job_index, exception_caught >>
            [] outcome = "classified" ->
                 /\ \E q \in DistinctUrlSeqs : relevant_jobs' = q
                 /\ job_index' = 1
                 /\ pc' = "job_head"
                 /\ UNCHANGED << company_index, exception_caught >>
            [] outcome = "raised" ->
                 /\ ContinueAfterException
                 /\ UNCHANGED << relevant_jobs, job_index >>
    /\ UNCHANGED << runs, max_applications_per_day, require_manual_review,
                    applications_today, scraper, open_sessions, apply_calls,
                    skip_all_at, company_applications,
                    classifierVars, trackerVars, extVars >>

\* the resume file save_customized_resume wrote and the generated cover letter
SavedResumePath == "resumes/a.json"
GeneratedCoverLetter == 1500

\* is_already_applied(job)
IsAlreadyApplied(job_url) == HasAppliedToJob(applications, job_url)

\* the job loop without the limit test of lines 127-128
JobLoopHeadNoLimit ==
    /\ pc = "job_head"
    /\ IF job_index > Len(relevant_jobs)
       THEN pc' = "close_scraper"
       ELSE IF IsAlreadyApplied(relevant_jobs[job_index])
       THEN pc' = "already_applied"
       ELSE pc' = IF require_manual_review THEN "review" ELSE "process"
    /\ UNCHANGED << runs, max_applications_per_day, require_manual_review,
                    company_index, applications_today, scraper, open_sessions,
                    relevant_jobs, job_index, apply_calls,
                    classifierVars, trackerVars, extVars,
                    exception_caught, skip_all_at, company_applications >>

\* lines 126-140: the head of the job loop up to the manual review
JobLoopHead ==
    /\ pc = "job_head"
    /\ IF \/ job_index > Len(relevant_jobs)
          \/ applications_today >= max_applications_per_day
       THEN pc' = "close_scraper"
       ELSE IF IsAlreadyApplied(relevant_jobs[job_index])
       THEN pc' = "already_applied"
       ELSE pc' = IF require_manual_review THEN "review" ELSE "process"
    /\ UNCHANGED << runs, max_applications_per_day, require_manual_review,
                    company_index, applications_today, scraper, open_sessions,
                    relevant_jobs, job_index, apply_calls,
                    classifierVars, trackerVars, extVars,
                    exception_caught, skip_all_at, company_applications >>

\* lines 133-135: "Already applied to ..."; continue with the next job
SkipAlreadyApplied ==
    /\ pc = "already_applied"
    /\ job_index' = job_index + 1
    /\ pc' = "job_head"
    /\ UNCHANGED << runs, max_applications_per_day, require_manual_review,
                    company_index, applications_today, scraper, open_sessions,
                    relevant_jobs, apply_calls, classifierVars, trackerVars, extVars,
                    exception_caught, skip_all_at, company_applications >>

\* the number of apply_to_job calls made so far
RECURSIVE SumOver(_, _)
SumOver(f, S) ==
    IF S = {} THEN 0
    ELSE LET x == CHOOSE x \in S : TRUE IN f[x] + SumOver(f, S \ { x })

ApplyCallsMade == SumOver(apply_calls, JobUrls)

\* manual_job_review, lines 305-316: 'y' applies, 'n' skips the job, 's' clears
\* config.require_manual_review and skips the job; input() may raise EOFError,
\* which reaches the except clause of the company loop
ManualJobReview ==
    /\ pc = "review"
    /\ \E response \in { "y", "n", "s", "EOFError" } :
          CASE response = "y" ->
                 /\ pc' = "process"
                 /\ UNCHANGED << require_manual_review, job_index, company_index,
                                 exception_caught, skip_all_at, company_applications >>
            [] response = "n" ->
                 /\ job_index' = job_index + 1
                 /\ pc' = "job_head"
                 /\ UNCHANGED << require_manual_review, company_index,
                                 exception_caught, skip_all_at, company_applications >>
            [] response = "s" ->
                 /\ require_manual_review' = FALSE
                 /\ skip_all_at' = ApplyCallsMade
                 /\ job_index' = job_index + 1
                 /\ pc' = "job_head"
                 /\ UNCHANGED << company_index, exception_caught,
                                 company_applications >>
            [] response = "EOFError" ->
                 /\ ContinueAfterException
                 /\ UNCHANGED << require_manual_review, job_index, skip_all_at,
                                 company_applications >>
    /\ UNCHANGED << runs, max_applications_per_day, applications_today, scraper,
                    open_sessions, relevant_jobs, apply_calls,
                    classifierVars, trackerVars, extVars >>

\* process_company_application (lines 318-356) and lines 142-154.  Resume and
\* cover-letter preparation may raise before the browser is touched (return
\* False, nothing recorded); otherwise apply_to_job runs, returns success or
\* failure, and the attempt is recorded with add_application.
ProcessCompanyApplication ==
    /\ pc = "process"
    /\ LET job_url == relevant_jobs[job_index]
       IN \E outcome \in { "preparation_raised", "applied", "apply_failed" } :
            IF outcome = "preparation_raised"
            THEN UNCHANGED << apply_calls, applications_today,
                              company_applications, trackerVars >>
            ELSE /\ apply_calls' = [ apply_calls EXCEPT ![job_url] = @ + 1 ]
                 /\ AddApplication(job_url, SavedResumePath, GeneratedCoverLetter,
                                   outcome = "applied")
                 /\ applications_today' =
                      IF outcome = "applied" THEN applications_today + 1
                      ELSE applications_today
                 /\ company_applications' =
                      IF outcome = "applied" THEN company_applications + 1
                      ELSE company_applications
    /\ job_index' = job_index + 1
    /\ pc' = "job_head"
    /\ UNCHANGED << runs, max_applications_per_day, require_manual_review,
                    company_index, scraper, open_sessions,
                    relevant_jobs, classifierVars, extVars,
                    exception_caught, skip_all_at >>

\* lines 156-161: scraper.close() quits the driver; then the next company
CloseScraper ==
    /\ pc = "close_scraper"
    /\ open_sessions' = open_sessions - 1
    /\ scraper' = "quit"
    /\ company_index' = company_index + 1
    /\ pc' = "company_head"
    /\ UNCHANGED << runs, max_applications_per_day, require_manual_review,
                    applications_today, relevant_jobs, job_index, apply_calls,
                    classifierVars, trackerVars, extVars,
                    exception_caught, skip_all_at, company_applications >>

\* generate_daily_report, lines 374-395: the report joins
\* stats['top_companies'] with ', '.join(...).  get_application_stats returns
\* that list as dict records (one per company with a row whose status is not
\* 'Failed'), so the join raises TypeError whenever the list is not empty.
ReportRaises(rows) == \E i \in 1..Len(rows) : rows[i].status # "Failed"

\* lines 167-168: generate_daily_report(); an exception here leaves
\* run_company_applications
GenerateDailyReport ==
    /\ pc = "report"
    /\ pc' = IF ReportRaises(applications) THEN "crashed" ELSE "done"
    /\ UNCHANGED << runs, max_applications_per_day, require_manual_review,
                    company_index, applications_today, scraper, open_sessions,
                    relevant_jobs, job_index, apply_calls,
                    classifierVars, trackerVars, extVars,
                    exception_caught, skip_all_at, company_applications >>

Next ==
    \/ StartRun
    \/ CompanyLoopHead
    \/ CreateScraper
    \/ DiscoverAndClassify
    \/ JobLoopHead
    \/ SkipAlreadyApplied
    \/ ManualJobReview
    \/ ProcessCompanyApplication
    \/ CloseScraper
    \/ GenerateDailyReport

Spec == InitRun /\ [][Next]_vars

\* run_company_applications is one sequential coroutine: a step that can be
\* taken is taken
FairSpec == Spec /\ WF_vars(Next)

-----------------------------------------------------------------------------
(* One call of _passes_company_filters(job, company_config)                *)

CoreIdle == ClassifierIdle /\ TrackerInit /\ RunIdle

InitFilter ==
    /\ CoreIdle
    /\ ApplierIdle
    /\ ManagerIdle
    /\ SchedulerIdle
    /\ HelperIdle
    /\ filter_job \in FilterJobs
    /\ company_config \in [ preferred_locations : PreferredLocations ]
    /\ salary_min \in SalaryMins
    /\ fpc = "salary"
    /\ extracted_salary = NULL
    /\ passes = FALSE

\* lines 206-208: the salary filter; extract_salary runs only for a non-empty
\* salary string
FilterSalary ==
    /\ fpc = "salary"
    /\ extracted_salary' = IF filter_job.salary # ""
                           THEN ExtractSalary(filter_job.salary) ELSE NULL
    /\ IF SalaryTooLow(filter_job, salary_min)
       THEN fpc' = "returned" /\ passes' = FALSE
       ELSE fpc' = "location" /\ UNCHANGED passes
    /\ UNCHANGED << filter_job, company_config, salary_min, coreVars, notFilterVars >>

\* lines 211-215: the location preference
FilterLocation ==
    /\ fpc = "location"
    /\ IF LocationNotPreferred(filter_job, company_config)
       THEN fpc' = "returned" /\ passes' = FALSE
       ELSE fpc' = "seniority" /\ UNCHANGED passes
    /\ UNCHANGED << filter_job, company_config, salary_min, extracted_salary,
                    coreVars, notFilterVars >>

\* lines 218-222: the experience level filter and the final return True
FilterSeniority ==
    /\ fpc = "seniority"
    /\ fpc' = "returned"
    /\ passes' = ~IsTooSenior(filter_job)
    /\ UNCHANGED << filter_job, company_config, salary_min, extracted_salary,
                    coreVars, notFilterVars >>

NextFilter ==
    \/ FilterSalary
    \/ FilterLocation
    \/ FilterSeniority

SpecFilter == InitFilter /\ [][NextFilter]_vars

-----------------------------------------------------------------------------
(* One call of CompanyApplier.apply_to_job(job, resume_path, cover_letter) *)

InitApplier ==
    /\ ClassifierIdle
    /\ TrackerInit
    /\ RunLocalsIdle
    /\ max_applications_per_day = 1
    /\ require_manual_review \in BOOLEAN
    /\ FilterIdle
    /\ ManagerIdle
    /\ SchedulerIdle
    /\ HelperIdle
    /\ apc = "navigate"
    /\ upload_required \in BOOLEAN
    /\ browser_log = << >>
    /\ fields_filled = 0
    /\ files_uploaded = NULL
    /\ page_source = NULL
    /\ current_url = NULL
    /\ apply_result = "pending"

\* lines 76-78, and the early returns: apply_to_job returns False
ReturnFalse ==
    /\ apc' = "returned"
    /\ apply_result' = "false"

\* lines 31-38: driver.get(job.url) and the wait for <body>; a timeout or a
\* driver error goes to the except clause
Navigate ==
    /\ apc = "navigate"
    /\ \E outcome \in { "loaded", "raises" } :
          IF outcome = "loaded"
          THEN /\ browser_log' = Append(browser_log, "get")
               /\ apc' = "apply_button"
               /\ UNCHANGED apply_result
          ELSE ReturnFalse /\ UNCHANGED browser_log
    /\ UNCHANGED << upload_required, fields_filled, files_uploaded, page_source,
                    current_url, coreVars, notApplierVars >>

\* lines 41-43: _find_and_click_apply_button clicks a trigger, finds none, or
\* raises an exception its own except clauses do not name
FindAndClickApplyButton ==
    /\ apc = "apply_button"
    /\ \E outcome \in { "clicked", "not_found", "raises" } :
          IF outcome = "clicked"
          THEN /\ browser_log' = Append(browser_log, "apply_clicked")
               /\ apc' = "fill_form"
               /\ UNCHANGED apply_result
          ELSE ReturnFalse /\ UNCHANGED browser_log
    /\ UNCHANGED << upload_required, fields_filled, files_uploaded, page_source,
                    current_url, coreVars, notApplierVars >>

\* lines 49-53: _fill_application_form fills and verifies n fields, or raises
\* while splitting the configured name
FillApplicationForm ==
    /\ apc = "fill_form"
    /\ \E outcome \in { "returns", "raises" }, n \in 0..MaxFields :
          IF outcome = "returns"
          THEN /\ fields_filled' = n
               /\ browser_log' = browser_log \o [ k \in 1..n |-> "field_filled" ]
               /\ IF FormFilled(n)
                  THEN apc' = "file_uploads" /\ UNCHANGED apply_result
                  ELSE ReturnFalse
          ELSE /\ n = 0
               /\ ReturnFalse
               /\ UNCHANGED << fields_filled, browser_log >>
    /\ UNCHANGED << upload_required, files_uploaded, page_source, current_url,
                    coreVars, notApplierVars >>

\* line 56: files_uploaded = self._handle_file_uploads(resume_path, cover_letter);
\* an exception leaving the helper goes to the except clause of apply_to_job
HandleFileUploadsStep ==
    /\ apc = "file_uploads"
    /\ \E file_inputs \in FileInputLists :
          LET done == HandleFileUploads(file_inputs)
          IN /\ browser_log' = browser_log \o done.log
             /\ IF done.raised
                THEN ReturnFalse /\ UNCHANGED files_uploaded
                ELSE /\ files_uploaded' = IF done.files_uploaded > 0
                                           THEN "true" ELSE "false"
                     /\ apc' = "cover_letter_text"
                     /\ UNCHANGED apply_result
    /\ UNCHANGED << upload_required, fields_filled, page_source, current_url,
                    coreVars, notApplierVars >>

\* lines 59-61: self._add_cover_letter_text(cover_letter), then the test of
\* config.require_manual_review
AddCoverLetterTextStep ==
    /\ apc = "cover_letter_text"
    /\ \E text_areas \in TextAreaLists :
          LET done == AddCoverLetterText(text_areas)
          IN /\ browser_log' = browser_log \o done.log
             /\ IF done.raised
                THEN ReturnFalse
                ELSE /\ apc' = IF require_manual_review THEN "review" ELSE "submit"
                     /\ UNCHANGED apply_result
    /\ UNCHANGED << upload_required, fields_filled, files_uploaded, page_source,
                    current_url, coreVars, notApplierVars >>

\* lines 62-65: _manual_submission_review; 'e' asks again, a closed stdin raises
ManualSubmissionReview ==
    /\ apc = "review"
    /\ \E response \in { "y", "n", "EOFError" } :
          IF response = "y"
          THEN apc' = "submit" /\ UNCHANGED apply_result
          ELSE ReturnFalse
    /\ UNCHANGED << upload_required, browser_log, fields_filled, files_uploaded,
                    page_source, current_url, coreVars, notApplierVars >>

\* lines 67-75: _submit_application clicks a submit element or, when none is
\* found, sends RETURN to the active element, then checks the page
SubmitApplication ==
    /\ apc = "submit"
    /\ \E outcome \in { "button_clicked", "click_raises", "enter_sent", "enter_raises" },
          source \in PageSources, url \in CurrentUrls :
          IF outcome \in { "button_clicked", "enter_sent" }
          THEN /\ browser_log' = Append(browser_log,
                                        IF outcome = "button_clicked"
                                        THEN "submit_click" ELSE "submit_enter")
               /\ page_source' = source
               /\ current_url' = url
               /\ apc' = "returned"
               /\ apply_result' = IF CheckSubmissionSuccess(source, url)
                                  THEN "true" ELSE "false"
          ELSE /\ source = WEBDRIVER_EXCEPTION
               /\ url = WEBDRIVER_EXCEPTION
               /\ ReturnFalse
               /\ UNCHANGED << browser_log, page_source, current_url >>
    /\ UNCHANGED << upload_required, fields_filled, files_uploaded, coreVars,
                    notApplierVars >>

NextApplier ==
    \/ Navigate
    \/ FindAndClickApplyButton
    \/ FillApplicationForm
    \/ HandleFileUploadsStep
    \/ AddCoverLetterTextStep
    \/ ManualSubmissionReview
    \/ SubmitApplication

SpecApplier == InitApplier /\ [][NextApplier]_vars

-----------------------------------------------------------------------------
(* CompanyManager: loading the companies file                              *)

InitManager ==
    /\ CoreIdle
    /\ FilterIdle
    /\ ApplierIdle
    /\ SchedulerIdle
    /\ HelperIdle
    /\ companies_file \in CompaniesFiles
    /\ mpc = "ready"
    /\ active_companies = << >>
    /\ load_raised = FALSE
    /\ warnings_logged = 0
    /\ manager_calls = 0
    /\ disabled_companies = {}

\* get_target_companies(), lines 164-186: no path raises for entries that are
\* JSON objects
LoadTargetCompanies ==
    /\ mpc \in { "ready", "saved" }
    /\ LET loaded == GetTargetCompanies(companies_file)
       IN /\ active_companies' = loaded.active_companies
          /\ warnings_logged' = loaded.warnings
    /\ load_raised' = FALSE
    /\ mpc' = "loaded"
    /\ UNCHANGED << companies_file, manager_calls, disabled_companies, coreVars,
                    notManagerVars >>

MaxManagerCalls == 2

\* the company_config arguments of add_company
NewCompanies ==
    { [ name |-> n, careers_url |-> "https://example.com/jobs", active |-> NULL ] :
        n \in { "Stripe", "Vercel", "stripe" } }

\* the updates arguments of update_company, one key each
Updates ==
    { [ key |-> "careers_url", value |-> "https://example.com/careers" ],
      [ key |-> "active", value |-> "true" ] }

\* disable_company: {'active': False}
DisableUpdate == [ key |-> "active", value |-> "false" ]

\* companies[i].update(updates)
ApplyUpdate(company, updates) == [ company EXCEPT ![updates.key] = updates.value ]

\* save_companies_config(companies): the file is rewritten with the list given
SaveCompaniesConfig(companies) == [ read |-> "ok", companies |-> companies ]

\* the list add_company and update_company start from: get_target_companies()
LoadedForEdit(file) == GetTargetCompanies(file).active_companies

\* the position update_company changes: the first company of the list whose
\* lower-cased name is company_name.lower(), 0 when there is none
FirstNamed(companies, company_name) ==
    IF \E i \in 1..Len(companies) : Lower(companies[i].name) = Lower(company_name)
    THEN CHOOSE i \in 1..Len(companies) :
            /\ Lower(companies[i].name) = Lower(company_name)
            /\ \A k \in 1..(i - 1) : Lower(companies[k].name) # Lower(company_name)
    ELSE 0

\* update_company(company_name, updates), lines 217-230: the file it leaves
UpdateCompany(file, company_name, updates) ==
    LET companies == LoadedForEdit(file)
        i == FirstNamed(companies, company_name)
    IN IF i = 0 THEN [ saved |-> FALSE, file |-> file ]
       ELSE [ saved |-> TRUE,
              file |-> SaveCompaniesConfig(
                          [ companies EXCEPT ![i] = ApplyUpdate(@, updates) ]) ]

\* add_company(company_config), lines 200-215: the file it leaves
AddCompany(file, new_company) ==
    LET companies == LoadedForEdit(file)
    IN IF FirstNamed(companies, new_company.name) # 0
       THEN [ saved |-> FALSE, file |-> file ]
       ELSE [ saved |-> TRUE,
              file |-> SaveCompaniesConfig(Append(companies, new_company)) ]

AddCompanyCall ==
    /\ mpc \in { "ready", "saved" }
    /\ manager_calls < MaxManagerCalls
    /\ \E new_company \in NewCompanies :
          LET done == AddCompany(companies_file, new_company)
          IN /\ companies_file' = done.file
             /\ mpc' = IF done.saved THEN "saved" ELSE mpc
    /\ manager_calls' = manager_calls + 1
    /\ UNCHANGED << active_companies, load_raised, warnings_logged,
                    disabled_companies, coreVars, notManagerVars >>

UpdateCompanyCall ==
    /\ mpc \in { "ready", "saved" }
    /\ manager_calls < MaxManagerCalls
    /\ \E company_name \in { "Stripe", "vercel" }, updates \in Updates :
          LET done == UpdateCompany(companies_file, company_name, updates)
          IN /\ companies_file' = done.file
             /\ mpc' = IF done.saved THEN "saved" ELSE mpc
    /\ manager_calls' = manager_calls + 1
    /\ UNCHANGED << active_companies, load_raised, warnings_logged,
                    disabled_companies, coreVars, notManagerVars >>

\* disable_company(company_name), lines 232-235
DisableCompanyCall ==
    /\ mpc \in { "ready", "saved" }
    /\ manager_calls < MaxManagerCalls
    /\ \E company_name \in { "Stripe", "vercel" } :
          LET done == UpdateCompany(companies_file, company_name, DisableUpdate)
          IN /\ companies_file' = done.file
             /\ mpc' = IF done.saved THEN "saved" ELSE mpc
             /\ disabled_companies' =
                  IF done.saved THEN disabled_companies \cup { Lower(company_name) }
                  ELSE disabled_companies
    /\ manager_calls' = manager_calls + 1
    /\ UNCHANGED << active_companies, load_raised, warnings_logged, coreVars,
                    notManagerVars >>

NextManager ==
    \/ LoadTargetCompanies
    \/ AddCompanyCall
    \/ UpdateCompanyCall
    \/ DisableCompanyCall

SpecManager == InitManager /\ [][NextManager]_vars

-----------------------------------------------------------------------------
(* DailyJobScheduler._run_daily_job_search                                 *)
(*                                                                         *)
(* The method is a coroutine function.  Calling it only builds a coroutine *)
(* object; its body runs when an event loop drives it, and the event loop  *)
(* switches between coroutines only where the body awaits (lines 70 and    *)
(* 86).  The executions are coroutines of one event loop of one thread.    *)

InitScheduler ==
    /\ CoreIdle
    /\ FilterIdle
    /\ ApplierIdle
    /\ ManagerIdle
    /\ SchedulerIdle
    /\ HelperIdle

\* self._run_daily_job_search() is called: line 44 inside asyncio.run, or by
\* schedule.run_pending() at line 48 for the job registered at line 40
CallRunDailyJobSearch(e) ==
    /\ exec_pc[e] = "none"
    /\ exec_pc' = [ exec_pc EXCEPT ![e] = "created" ]
    /\ UNCHANGED << is_running, stats, skipped_executions, coreVars,
                    notSchedulerVars >>

\* the coroutine object schedule received from the job function is dropped
\* without being awaited: its body never runs
CoroutineNeverAwaited(e) ==
    /\ exec_pc[e] = "created"
    /\ exec_pc' = [ exec_pc EXCEPT ![e] = "never_awaited" ]
    /\ UNCHANGED << is_running, stats, skipped_executions, coreVars,
                    notSchedulerVars >>

\* lines 54-56: the guard finds is_running set, warns and returns
SkipExecution(e) ==
    /\ exec_pc[e] = "created"
    /\ is_running
    /\ exec_pc' = [ exec_pc EXCEPT ![e] = "skipped" ]
    /\ skipped_executions' = skipped_executions + 1
    /\ UNCHANGED << is_running, stats, coreVars, notSchedulerVars >>

\* the guard of line 54 left out
PassGuardUnchecked(e) ==
    /\ exec_pc[e] = "created"
    /\ is_running' = TRUE
    /\ exec_pc' = [ exec_pc EXCEPT ![e] = "run_company_applications" ]
    /\ UNCHANGED << stats, skipped_executions, coreVars, notSchedulerVars >>

\* lines 54-70: the guard finds is_running clear, line 58 sets it, and the
\* coroutine runs on to its first await at line 70 without being switched out
PassGuard(e) ==
    /\ exec_pc[e] = "created"
    /\ ~is_running
    /\ is_running' = TRUE
    /\ exec_pc' = [ exec_pc EXCEPT ![e] = "run_company_applications" ]
    /\ UNCHANGED << stats, skipped_executions, coreVars, notSchedulerVars >>

\* lines 70-86: run_company_applications returns, the statistics are updated
\* and the coroutine awaits _generate_daily_summary
RunCompletes(e) ==
    /\ exec_pc[e] = "run_company_applications"
    /\ stats' = [ total_runs |-> stats.total_runs + 1,
                  successful_runs |-> stats.successful_runs + 1 ]
    /\ exec_pc' = [ exec_pc EXCEPT ![e] = "generate_daily_summary" ]
    /\ UNCHANGED << is_running, skipped_executions, coreVars, notSchedulerVars >>

\* line 67 or the await of line 70 raises an Exception
RunRaises(e) ==
    /\ exec_pc[e] = "run_company_applications"
    /\ exec_pc' = [ exec_pc EXCEPT ![e] = "except" ]
    /\ UNCHANGED << is_running, stats, skipped_executions, coreVars,
                    notSchedulerVars >>

\* the await of line 70 or of line 86 ends with a BaseException that
\* `except Exception` does not catch (CancelledError, KeyboardInterrupt)
ExecutionCancelled(e) ==
    /\ exec_pc[e] \in { "run_company_applications", "generate_daily_summary" }
    /\ exec_pc' = [ exec_pc EXCEPT ![e] = "finally_raising" ]
    /\ UNCHANGED << is_running, stats, skipped_executions, coreVars,
                    notSchedulerVars >>

\* line 86 returns: the try block is complete
SummaryCompletes(e) ==
    /\ exec_pc[e] = "generate_daily_summary"
    /\ exec_pc' = [ exec_pc EXCEPT ![e] = "finally" ]
    /\ UNCHANGED << is_running, stats, skipped_executions, coreVars,
                    notSchedulerVars >>

\* _generate_daily_summary (lines 96-131) raises an Exception, for instance
\* from writing the summary file
SummaryRaises(e) ==
    /\ exec_pc[e] = "generate_daily_summary"
    /\ exec_pc' = [ exec_pc EXCEPT ![e] = "except" ]
    /\ UNCHANGED << is_running, stats, skipped_executions, coreVars,
                    notSchedulerVars >>

\* lines 88-91: the except clause counts the run, successful_runs is left alone
ExceptClause(e) ==
    /\ exec_pc[e] = "except"
    /\ stats' = [ stats EXCEPT !.total_runs = @ + 1 ]
    /\ exec_pc' = [ exec_pc EXCEPT ![e] = "finally" ]
    /\ UNCHANGED << is_running, skipped_executions, coreVars, notSchedulerVars >>

\* lines 93-94: the finally clause clears the flag; the coroutine then returns,
\* or re-raises the exception the except clause did not catch
FinallyClause(e) ==
    /\ exec_pc[e] \in { "finally", "finally_raising" }
    /\ is_running' = FALSE
    /\ exec_pc' = [ exec_pc EXCEPT ![e] =
                      IF exec_pc[e] = "finally" THEN "returned" ELSE "raised" ]
    /\ UNCHANGED << stats, skipped_executions, coreVars, notSchedulerVars >>

NextScheduler ==
    \E e \in Executions :
        \/ CallRunDailyJobSearch(e)
        \/ CoroutineNeverAwaited(e)
        \/ SkipExecution(e)
        \/ PassGuard(e)
        \/ RunCompletes(e)
        \/ RunRaises(e)
        \/ ExecutionCancelled(e)
        \/ SummaryCompletes(e)
        \/ SummaryRaises(e)
        \/ ExceptClause(e)
        \/ FinallyClause(e)

SpecScheduler == InitScheduler /\ [][NextScheduler]_vars

-----------------------------------------------------------------------------
(* CompanyApplier: the form helpers, one call each with the elements they  *)
(* act on                                                                  *)

\* submit_selectors, lines 490-500
NumSubmitSelectors == 9

\* a driver call that acts on an element: the call, the position of the element
\* in the helper's list (of the selector, for _submit_application) and whether
\* the element was displayed and enabled
ElementAction(event, index, usable) ==
    [ event |-> event, index |-> index, usable |-> usable ]

\* Keys.RETURN goes to driver.switch_to.active_element, whatever that is
EnterAttempt == ElementAction("enter_keystroke", 0, FALSE)

FileInputUsable(file_input) ==
    file_input.is_displayed = "true" /\ file_input.is_enabled = "true"

InitHelper ==
    /\ CoreIdle
    /\ FilterIdle
    /\ ApplierIdle
    /\ ManagerIdle
    /\ SchedulerIdle
    /\ \/ helper = "_handle_file_uploads" /\ page_elements \in FileInputLists
       \/ helper = "_add_cover_letter_text" /\ page_elements \in TextAreaLists
       \/ helper = "_submit_application" /\ page_elements = << >>
    /\ hpc = "called"
    /\ selector_index = 1
    /\ element_actions = << >>
    /\ helper_result = "pending"

\* _handle_file_uploads(resume_path, cover_letter), lines 362-411
HandleFileUploadsCall ==
    /\ helper = "_handle_file_uploads"
    /\ hpc = "called"
    /\ LET done == HandleFileUploads(page_elements)
       IN /\ element_actions' =
                [ k \in 1..Len(done.sent) |->
                    ElementAction("send_keys", done.sent[k],
                                  FileInputUsable(page_elements[done.sent[k]])) ]
          /\ helper_result' = IF done.raised THEN "raised"
                              ELSE IF done.files_uploaded > 0 THEN "true" ELSE "false"
    /\ hpc' = "returned"
    /\ UNCHANGED << helper, page_elements, selector_index, coreVars, notHelperVars >>

\* _add_cover_letter_text(cover_letter), lines 433-457: clear() and send_keys()
\* are called on textareas that passed the test of line 440
AddCoverLetterTextCall ==
    /\ helper = "_add_cover_letter_text"
    /\ hpc = "called"
    /\ LET done == AddCoverLetterText(page_elements)
       IN /\ element_actions' =
                [ k \in 1..Len(done.cleared) |->
                    ElementAction("clear", done.cleared[k],
                                  page_elements[done.cleared[k]].usable = "true") ]
                \o [ k \in 1..Len(done.filled) |->
                       ElementAction("send_keys", done.filled[k],
                                     page_elements[done.filled[k]].usable = "true") ]
          /\ helper_result' = IF done.raised THEN "raised" ELSE "none"
    /\ hpc' = "returned"
    /\ UNCHANGED << helper, page_elements, selector_index, coreVars, notHelperVars >>

\* _submit_application lines 502-521, one selector: find_element raises
\* NoSuchElementException, or gives an element that is hidden, disabled, or
\* displayed and enabled; the latter is clicked and the page is checked.  An
\* exception of another class (a stale element, an intercepted click) leaves
\* the helper.
SubmitTrySelector ==
    /\ helper = "_submit_application"
    /\ hpc = "called"
    /\ selector_index <= NumSubmitSelectors
    /\ \E found \in { "no_such_element", "hidden", "disabled", "usable", "stale" } :
          CASE found \in { "no_such_element", "hidden", "disabled" } ->
                 /\ selector_index' = selector_index + 1
                 /\ UNCHANGED << hpc, element_actions, helper_result >>
            [] found = "stale" ->
                 /\ hpc' = "returned"
                 /\ helper_result' = "raised"
                 /\ UNCHANGED << selector_index, element_actions >>
            [] found = "usable" ->
                 \E click \in { "ok", "raises" }, source \in PageSources,
                    url \in CurrentUrls :
                    /\ hpc' = "returned"
                    /\ UNCHANGED selector_index
                    /\ IF click = "ok"
                       THEN /\ element_actions' =
                                 Append(element_actions,
                                        ElementAction("click", selector_index, TRUE))
                            /\ helper_result' =
                                 IF CheckSubmissionSuccess(source, url)
                                 THEN "true" ELSE "false"
                       ELSE /\ source = WEBDRIVER_EXCEPTION
                            /\ url = WEBDRIVER_EXCEPTION
                            /\ helper_result' = "raised"
                            /\ UNCHANGED element_actions
    /\ UNCHANGED << helper, page_elements, coreVars, notHelperVars >>

\* the selectors are exhausted and the helper returns False at once
SubmitFallbackSkipped ==
    /\ helper = "_submit_application"
    /\ hpc = "called"
    /\ selector_index > NumSubmitSelectors
    /\ hpc' = "returned"
    /\ helper_result' = "false"
    /\ UNCHANGED << helper, page_elements, selector_index, element_actions,
                    coreVars, notHelperVars >>

\* _submit_application lines 523-531: the selectors are exhausted; Keys.RETURN
\* is sent to the active element and the page is checked; any exception of the
\* attempt is swallowed and the helper returns False
SubmitFallback ==
    /\ helper = "_submit_application"
    /\ hpc = "called"
    /\ selector_index > NumSubmitSelectors
    /\ \E attempt \in { "sent", "raises" }, source \in PageSources,
          url \in CurrentUrls :
          /\ element_actions' = Append(element_actions, EnterAttempt)
          /\ IF attempt = "sent"
             THEN helper_result' = IF CheckSubmissionSuccess(source, url)
                                   THEN "true" ELSE "false"
             ELSE /\ source = WEBDRIVER_EXCEPTION
                  /\ url = WEBDRIVER_EXCEPTION
                  /\ helper_result' = "false"
    /\ hpc' = "returned"
    /\ UNCHANGED << helper, page_elements, selector_index, coreVars, notHelperVars >>

NextHelper ==
    \/ HandleFileUploadsCall
    \/ AddCoverLetterTextCall
    \/ SubmitTrySelector
    \/ SubmitFallback

SpecHelper == InitHelper /\ [][NextHelper]_vars

-----------------------------------------------------------------------------
(* Claims about the classifier, checked under SpecClassifier               *)

Classified == cpc \in { "classified", "returned" }
Arbitrated == Classified /\ model_calls = 1

\* C1: the confidence classify_job returns lies in [0,1] for every posting and
\* every model response; a confidence supplied by the model is never passed
\* through outside that range.
C1_ConfidenceInUnitInterval ==
    Classified => InUnitInterval(final_result.confidence)

\* the model answers {"role": "data_scientist", "confidence": 1.5} for a posting
\* the rule stage rates below 0.8, and classify_job returns confidence 1.5
C1_Witness ==
    /\ Arbitrated
    /\ ai_response.kind = "object"
    /\ Eq(ai_result.confidence, << 3, 2 >>)
    /\ Eq(final_result.confidence, << 3, 2 >>)
    /\ final_result.analysis.method = "combined"

\* C5: classify_job calls the model exactly when the rule-stage confidence is at
\* most 0.8: above 0.8 the model is never invoked and the rule-stage verdict is
\* returned unchanged, otherwise the model is invoked exactly once.
C5_ModelCalledIffNotHigh ==
    /\ model_calls <= 1
    /\ Classified =>
         IF Gt(rule_based_result.confidence, << 8, 10 >>)
         THEN model_calls = 0 /\ final_result = rule_based_result
         ELSE model_calls = 1

\* a rule-stage confidence of exactly 0.8 (28 of 35 points) went to the model
C5_Witness ==
    /\ Classified
    /\ Eq(rule_based_result.confidence, << 8, 10 >>)
    /\ model_calls = 1

FailedModelOutcome(resp) ==
    \/ resp.kind \in { "call_failed", "not_json", "not_object" }
    \/ resp.kind = "object" /\ resp.confidence.tag = "not_numeric"

\* C6: on a call failure or an unparsable answer (exception or timeout, non-JSON
\* text, JSON that is not an object, non-numeric confidence) the model stage
\* returns (OTHER, 0.3) with the error noted, and no exception leaves it or
\* classify_job.
C6_FailureFallsBack ==
    /\ ~raised
    /\ cpc # "raised"
    /\ (cpc \in { "ai_done", "classified", "returned" } /\ FailedModelOutcome(ai_response))
         => /\ ai_result.role = OTHER_ROLE
            /\ Eq(ai_result.confidence, << 3, 10 >>)
            /\ ai_result.analysis.method = "ai_powered"
            /\ ai_result.analysis.error

\* the answer was JSON but not an object, and should_apply_to_job returned
C6_Witness ==
    /\ cpc = "returned"
    /\ ai_response.kind = "not_object"
    /\ ai_result.role = OTHER_ROLE

Agreement ==
    /\ rule_based_result.role = ai_result.role
    /\ Gt(rule_based_result.confidence, << 1, 2 >>)
    /\ Gt(ai_result.confidence, << 1, 2 >>)

\* C7: when the two verdicts do not both agree on the role with both confidences
\* above 0.5, arbitration returns the role and confidence of the verdict with the
\* higher confidence (the model's when the two are equal), with method=combined,
\* agreement=false and both sub-results kept in the analysis.
C7_DisagreementPicksHigher ==
    (Arbitrated /\ ~Agreement) =>
        /\ Gt(rule_based_result.confidence, ai_result.confidence)
             => /\ final_result.role = rule_based_result.role
                /\ final_result.confidence = rule_based_result.confidence
        /\ Ge(ai_result.confidence, rule_based_result.confidence)
             => /\ final_result.role = ai_result.role
                /\ final_result.confidence = ai_result.confidence
        /\ final_result.analysis.method = "combined"
        /\ final_result.analysis.agreement = FALSE
        /\ final_result.analysis.rule_result
             = << rule_based_result.role, rule_based_result.confidence >>
        /\ final_result.analysis.ai_result
             = << ai_result.role, ai_result.confidence >>

\* the two verdicts name different roles with equal confidence: the model's wins
C7_Witness ==
    /\ Arbitrated
    /\ rule_based_result.role # ai_result.role
    /\ Eq(rule_based_result.confidence, ai_result.confidence)
    /\ final_result.role = ai_result.role

\* C8: when both verdicts name the same role and both confidences are strictly
\* greater than 0.5, arbitration returns that role with the arithmetic mean of
\* the two confidences, method=combined and agreement=true.
C8_AgreementAverages ==
    (Arbitrated /\ Agreement) =>
        /\ final_result.role = rule_based_result.role
        /\ ~IsNaN(final_result.confidence)
        /\ 2 * final_result.confidence[1]
             * rule_based_result.confidence[2] * ai_result.confidence[2]
           = ( rule_based_result.confidence[1] * ai_result.confidence[2]
               + ai_result.confidence[1] * rule_based_result.confidence[2] )
             * final_result.confidence[2]
        /\ final_result.analysis.method = "combined"
        /\ final_result.analysis.agreement = TRUE

\* rule (data_scientist, 0.6) and model (data_scientist, 0.9) give 0.75
C8_Witness ==
    /\ Arbitrated
    /\ Agreement
    /\ Eq(rule_based_result.confidence, << 3, 5 >>)
    /\ Eq(ai_result.confidence, << 9, 10 >>)
    /\ Eq(final_result.confidence, << 3, 4 >>)

\* C9: should_apply_to_job accepts exactly when the classified role is not OTHER
\* and the confidence is at least min_confidence; OTHER is rejected at every
\* confidence.
C9_AcceptIffRoleAndConfidence ==
    cpc = "returned" =>
        ( decision <=> ( /\ final_result.role # OTHER_ROLE
                         /\ Ge(final_result.confidence, min_confidence) ) )

\* the model's confidence parses to nan, classify_job returns it, and the
\* posting is accepted although nan >= min_confidence is false
C9_Witness ==
    /\ cpc = "returned"
    /\ decision
    /\ final_result.role # OTHER_ROLE
    /\ IsNaN(final_result.confidence)

\* number of entries of a keyword list that occur in the text
Matched(keywords, text) ==
    Cardinality({ i \in 1..Len(keywords) : Contains(keywords[i], text) })

\* C10: for every posting text and role profile the normalized keyword score is
\* max(0, (2*matched primary + matched secondary - 3*matched anti-keywords)
\*        / (2*|primary| + |secondary|)) and lies in [0,1].  The right-hand side
\* reads nothing but the text and the profile, so equal inputs give equal scores.
C10_NormalizedScore ==
    cpc = "rule_done" =>
        \A r \in DOMAIN role_patterns :
            LET text == JobText(job)
                p == role_patterns[r]
                raw == 2 * Matched(p.primary_keywords, text)
                       + Matched(p.secondary_keywords, text)
                       - 3 * Matched(p.anti_keywords, text)
                total == 2 * Len(p.primary_keywords) + Len(p.secondary_keywords)
            IN /\ Eq(role_scores[r].score,
                     IF raw > 0 THEN << raw, total >> ELSE << 0, 1 >>)
               /\ InUnitInterval(role_scores[r].score)

\* one profile has a negative raw score (floored to 0), another a positive score
C10_Witness ==
    /\ cpc = "rule_done"
    /\ \E r \in DOMAIN role_patterns :
          role_scores[r].raw_score < 0 /\ Eq(role_scores[r].score, Zero)
    /\ \E r \in DOMAIN role_patterns : Gt(role_scores[r].score, Zero)

\* C11: the rule stage yields (OTHER, 0.9) whenever the highest normalized score
\* over all role profiles is below 0.3, in particular when the text contains no
\* keyword of any profile; when the highest score is 0.3 or more it yields a
\* best-scoring role with confidence equal to that score.
C11_RuleStageVerdict ==
    cpc = "rule_done" =>
        /\ (\A r \in DOMAIN role_patterns :
                Lt(role_scores[r].score, DECENT_CONFIDENCE))
             => /\ rule_based_result.role = OTHER_ROLE
                /\ Eq(rule_based_result.confidence, << 9, 10 >>)
        /\ (\A r \in DOMAIN role_patterns :
                /\ Matched(role_patterns[r].primary_keywords, JobText(job)) = 0
                /\ Matched(role_patterns[r].secondary_keywords, JobText(job)) = 0
                /\ Matched(role_patterns[r].anti_keywords, JobText(job)) = 0)
             => /\ rule_based_result.role = OTHER_ROLE
                /\ Eq(rule_based_result.confidence, << 9, 10 >>)
        /\ (\E r \in DOMAIN role_patterns :
                Ge(role_scores[r].score, DECENT_CONFIDENCE))
             => /\ rule_based_result.role \in DOMAIN role_patterns
                /\ \A r \in DOMAIN role_patterns :
                      Le(role_scores[r].score,
                         role_scores[rule_based_result.role].score)
                /\ rule_based_result.confidence
                      = role_scores[rule_based_result.role].score

\* some profile matches keywords, yet every score is below 0.3: (OTHER, 0.9)
C11_Witness ==
    /\ cpc = "rule_done"
    /\ \E r \in DOMAIN role_patterns : Gt(role_scores[r].score, Zero)
    /\ \A r \in DOMAIN role_patterns : Lt(role_scores[r].score, DECENT_CONFIDENCE)
    /\ rule_based_result.role = OTHER_ROLE
    /\ Eq(rule_based_result.confidence, << 9, 10 >>)

\* every role profile scores below 0.3 on the posting
LowScores ==
    \A r \in DOMAIN role_patterns : Lt(role_scores[r].score, DECENT_CONFIDENCE)

\* C27: for every posting whose highest normalized keyword score is below 0.3,
\* the outcome of should_apply_to_job does not depend on the model: the model is
\* not called, the verdict is (OTHER, 0.9), and the posting is rejected for
\* every min_confidence and every answer the model could have given.
C27_LowScoreIgnoresModel ==
    (cpc # "start" /\ LowScores)
        => /\ cpc \in { "rule_done", "classified", "returned" }
           /\ model_calls = 0
           /\ ai_response = NoResponse
           /\ ~raised
           /\ Classified => /\ final_result.role = OTHER_ROLE
                            /\ Eq(final_result.confidence, << 9, 10 >>)
           /\ cpc = "returned" => decision = FALSE

\* a posting that matches some keywords, scores below 0.3 everywhere, and is
\* rejected with min_confidence 0 although its confidence is 0.9
C27_Witness ==
    /\ cpc = "returned"
    /\ LowScores
    /\ \E r \in DOMAIN role_patterns : Gt(role_scores[r].score, Zero)
    /\ Eq(min_confidence, Zero)
    /\ model_calls = 0
    /\ Eq(final_result.confidence, << 9, 10 >>)
    /\ decision = FALSE

\* C18: an exception raised while processing one company (browser start-up, job
\* discovery, classification and filtering, or an individual application) never
\* ends run_company_applications early: the run continues with the next company
\* and reaches the end-of-run report step.
C18_ExceptionNeverEndsRun ==
    /\ [][ /\ (exception_caught' /\ ~exception_caught)
               => (pc' = "company_head" /\ company_index' = company_index + 1)
           /\ pc' \in { "done", "crashed" } => pc = "report"
           /\ pc' = "report" => pc = "company_head" ]_vars
    /\ (exception_caught /\ pc = "company_head") ~> (pc = "report")

\* the first company raised and the second one is being processed
C18_Witness ==
    /\ exception_caught
    /\ company_index = 2
    /\ pc = "job_head"
    /\ Len(relevant_jobs) > 0

\* C21: after the operator answers 's' (skip all) in manual_job_review, no
\* further job is applied to in that session: every remaining job of the run is
\* skipped.
C21_SkipAllStopsApplying ==
    skip_all_at >= 0 => ApplyCallsMade = skip_all_at

\* the operator answered 's' before any application of the run, and a later job
\* of the run was applied to with no review
C21_Witness ==
    /\ skip_all_at = 0
    /\ runs = 1
    /\ require_manual_review = FALSE
    /\ applications_today = 1

\* C22: within one execution of run_company_applications, the count of
\* successful applications never exceeds config.max_applications_per_day, and no
\* new application is started once the count has reached that limit.
C22_DailyLimitRespected ==
    /\ applications_today <= max_applications_per_day
    /\ pc \in { "already_applied", "review", "process" }
         => applications_today < max_applications_per_day

\* the limit is above one, it has been reached inside a company's job loop, and
\* a relevant job of that company is left
C22_Witness ==
    /\ max_applications_per_day > 1
    /\ applications_today = max_applications_per_day
    /\ pc = "job_head"
    /\ job_index <= Len(relevant_jobs)

\* config.max_applications_per_company, settings.py line 20; no other value is
\* assigned anywhere
max_applications_per_company == 1

\* C23: within one execution of run_company_applications, at most
\* config.max_applications_per_company applications (default 1: one job per
\* company per day) are made to any single company.
C23_PerCompanyLimitRespected ==
    company_applications <= max_applications_per_company

\* two jobs of one company were applied to successfully in one run
C23_Witness ==
    /\ company_applications = 2
    /\ job_index = 3
    /\ applications_today = 2

-----------------------------------------------------------------------------
(* Claims about the company list, checked under SpecManager               *)

Malformed(company) == company.name = NULL \/ company.careers_url = NULL

\* C19: a company list entry that is malformed (missing name or careers_url)
\* causes a configuration error to be raised at load time and surfaced to the
\* operator; it is not silently dropped from the list of target companies.
C19_MalformedEntryRaises ==
    ( /\ mpc = "loaded"
      /\ companies_file.read = "ok"
      /\ \E i \in 1..Len(companies_file.companies) :
            Malformed(companies_file.companies[i]) )
        => load_raised

\* an active entry without careers_url was loaded: nothing was raised and the
\* returned list simply lacks the entry
C19_Witness ==
    /\ mpc = "loaded"
    /\ companies_file.read = "ok"
    /\ companies_file.companies
         = << [ name |-> "Stripe", careers_url |-> NULL, active |-> NULL ],
              [ name |-> "Vercel", careers_url |-> "https://example.com/jobs",
                active |-> "true" ] >>
    /\ ~load_raised
    /\ Len(active_companies) = 1
    /\ active_companies[1].name = "Vercel"

\* C29: add_company and update_company never remove or alter the stored
\* entries of other companies: after any sequence of add_company,
\* update_company and disable_company calls, a company that was disabled with
\* disable_company is still stored in the configuration file with active=False.
C29_DisabledCompanyStaysStored ==
    \A company_name \in disabled_companies :
        \E i \in 1..Len(companies_file.companies) :
            /\ companies_file.companies[i].name # NULL
            /\ Lower(companies_file.companies[i].name) = company_name
            /\ companies_file.companies[i].active = "false"

\* Stripe was disabled, then Vercel was disabled: the file holds the Vercel
\* entry only
C29_Witness ==
    /\ disabled_companies = { "stripe", "vercel" }
    /\ manager_calls = 2
    /\ Len(companies_file.companies) = 1
    /\ companies_file.companies[1].name = "Vercel"
    /\ companies_file.companies[1].active = "false"

-----------------------------------------------------------------------------
(* Claims about the job filter, checked under SpecFilter                   *)

\* C12: the job filter rejects every posting whose salary field contains no
\* digits (the parsed salary is 0, below the configured minimum), whatever the
\* rest of the posting is.
C12_NoDigitsRejected ==
    (fpc = "returned" /\ SalaryNumbers(filter_job.salary) = << >>)
        => ~passes

\* a posting with an empty salary field has passed the filter
C12_Witness ==
    /\ fpc = "returned"
    /\ filter_job.salary = ""
    /\ extracted_salary = NULL
    /\ passes

\* C13: the salary value compared with the configured minimum is the first
\* integer run of the salary string; a posting is rejected when that first number
\* is below the minimum, even if a later number in the string is not.
C13_FirstIntegerCompared ==
    (fpc \notin { "idle", "salary" } /\ filter_job.salary # "")
        => /\ extracted_salary = ExtractFirstNumber(filter_job.salary)
           /\ ExtractFirstNumber(filter_job.salary) < salary_min
                => (fpc = "returned" /\ ~passes)

\* "$60,000 - $90,000" against a minimum of 70000: the filter compared 90000 and
\* let the posting through
C13_Witness ==
    /\ fpc = "returned"
    /\ passes
    /\ filter_job.salary = "$60,000 - $90,000"
    /\ salary_min = DEFAULT_SALARY_MIN
    /\ extracted_salary = 90000

-----------------------------------------------------------------------------
(* Claims about apply_to_job, checked under SpecApplier                    *)

LaterStepEvents == { "file_uploaded", "cover_letter_text", "submit_click", "submit_enter" }
SubmitEvents == { "submit_click", "submit_enter" }
Logged(event) == \E i \in 1..Len(browser_log) : browser_log[i] = event

\* C14: no file upload, cover-letter insertion or submit action happens unless an
\* apply trigger was clicked first and at least one personal-info field was then
\* filled and verified; if no apply trigger is found, or zero fields are filled,
\* apply_to_job returns false without performing any later step.
C14_NoLaterStepWithoutApplyAndFill ==
    /\ \A i \in 1..Len(browser_log) :
          browser_log[i] \in LaterStepEvents
            => \E j, k \in 1..(i - 1) :
                  /\ j < k
                  /\ browser_log[j] = "apply_clicked"
                  /\ browser_log[k] = "field_filled"
    /\ (apc = "returned" /\ (~Logged("apply_clicked") \/ ~Logged("field_filled")))
          => /\ apply_result = "false"
             /\ \A i \in 1..Len(browser_log) : browser_log[i] \notin LaterStepEvents

\* the apply trigger was clicked, no field could be filled, and apply_to_job
\* returned false with nothing else done to the page
C14_Witness ==
    /\ apc = "returned"
    /\ browser_log = << "get", "apply_clicked" >>
    /\ fields_filled = 0
    /\ apply_result = "false"

\* C15: apply_to_job returns true only if a submit action (a click on a submit
\* element, or the fallback keystroke) was performed and, after it, the page text
\* or the URL contained one of the fixed success indicators; in every other case
\* it returns false.
C15_TrueOnlyAfterSubmitAndIndicator ==
    apc = "returned" =>
        /\ apply_result \in { "true", "false" }
        /\ apply_result = "true"
             => /\ Len(browser_log) > 0
                /\ browser_log[Len(browser_log)] \in SubmitEvents
                /\ \/ /\ page_source \notin { NULL, WEBDRIVER_EXCEPTION }
                      /\ \E k \in 1..Len(success_indicators) :
                            Contains(success_indicators[k], Lower(page_source))
                   \/ /\ current_url \notin { NULL, WEBDRIVER_EXCEPTION }
                      /\ \E k \in 1..Len(success_url_words) :
                            Contains(success_url_words[k], Lower(current_url))

\* the fallback keystroke was sent and only the URL shows the confirmation
C15_Witness ==
    /\ apc = "returned"
    /\ apply_result = "true"
    /\ Logged("submit_enter")
    /\ page_source = "<p>Fix the errors</p>"
    /\ current_url = "https://a.io/Confirmation"

\* C16: an exception raised inside the file-upload step or the cover-letter-text
\* step is caught within that step and does not abort the application:
\* apply_to_job still goes on to the submit step.
C16_StepExceptionDoesNotAbort ==
    [][ (\E i \in (Len(browser_log) + 1)..Len(browser_log') :
            browser_log'[i] \in { "upload_step_exception", "cover_text_step_exception" })
        => apc' \in { "cover_letter_text", "review", "submit" } ]_vars

\* a file input went stale while its visibility was read: the exception left
\* _handle_file_uploads and apply_to_job returned false before the submit step
C16_Witness ==
    /\ apc = "returned"
    /\ apply_result = "false"
    /\ files_uploaded = NULL
    /\ Len(browser_log) > 0
    /\ browser_log[Len(browser_log)] = "upload_step_exception"
    /\ ~Logged("submit_click")
    /\ ~Logged("submit_enter")

\* C17: when the form requires a file upload and no file was uploaded at all, the
\* application is marked failed: apply_to_job returns false and does not submit.
C17_RequiredUploadMissingFails ==
    (apc = "returned" /\ upload_required /\ files_uploaded = "false")
        => /\ apply_result = "false"
           /\ ~Logged("submit_click")
           /\ ~Logged("submit_enter")

\* the form required an upload, nothing was uploaded, and the application was
\* submitted and reported as successful
C17_Witness ==
    /\ apc = "returned"
    /\ upload_required
    /\ files_uploaded = "false"
    /\ ~Logged("file_uploaded")
    /\ Logged("submit_click")
    /\ apply_result = "true"

-----------------------------------------------------------------------------
(* Claims about the tracker and the run loop                               *)

\* C2: across any sequence of runs, apply_to_job is invoked at most once per job
\* URL: once an attempt for a URL has been recorded (succeeded or failed),
\* has_applied_to_job(url) is true and every later attempt for that URL is
\* skipped before the manual review and before any browser action.
C2_AtMostOneAttemptPerUrl ==
    /\ \A u \in JobUrls : apply_calls[u] <= 1
    /\ \A u \in JobUrls : apply_calls[u] >= 1 => CountByUrl(applications, u) > 0
    /\ pc \in { "review", "process" }
         => CountByUrl(applications, relevant_jobs[job_index]) = 0

\* in a second run, a URL whose only attempt failed is skipped
C2_Witness ==
    /\ pc = "already_applied"
    /\ runs = 2
    /\ apply_calls[relevant_jobs[job_index]] = 1
    /\ \E i \in 1..Len(applications) :
          /\ applications[i].job_url = relevant_jobs[job_index]
          /\ applications[i].status = "Failed"
          /\ applications[i].id = 1

\* C3: after any sequence of add_application, update_application_status and
\* mark_follow_up_sent calls the applications table holds at most one record
\* per job URL, and no operation ever deletes a record.
C3_OneRecordPerUrlNoDelete ==
    /\ [](\A i, k \in 1..Len(applications) :
             applications[i].job_url = applications[k].job_url => i = k)
    /\ [][ /\ Len(applications') >= Len(applications)
           /\ \A i \in 1..Len(applications) :
                 /\ applications'[i].id = applications[i].id
                 /\ applications'[i].job_url = applications[i].job_url ]_vars

\* with two records stored and one of them updated, an add_application for a
\* URL that has a record was refused
C3_Witness ==
    /\ Len(applications) = 2
    /\ last_op.op = "add_application"
    /\ last_op.refused
    /\ \E i \in 1..Len(applications) : applications[i].status \in Statuses

\* C28: add_application for a job URL that already has a record changes
\* nothing: the existing record keeps its status, timestamps, resume path and
\* cover letter, and no row is added to application_events.
C28_DuplicateAddChangesNothing ==
    [][ ( /\ tracker_calls' = tracker_calls + 1
          /\ last_op'.op = "add_application"
          /\ HasAppliedToJob(applications, last_op'.job_url) )
        => /\ applications' = applications
           /\ application_events' = application_events ]_vars

\* a record whose status was updated to Interview is still the only one, with
\* its two events, after add_application was called again for its URL
C28_Witness ==
    /\ last_op.op = "add_application"
    /\ last_op.refused
    /\ Len(applications) = 1
    /\ applications[1].job_url = last_op.job_url
    /\ applications[1].status = "Interview"
    /\ applications[1].updated_at > applications[1].application_date
    /\ Len(application_events) = 2

\* C4: every browser session opened for a company is closed (driver quit) before
\* the next company is started or the run ends, on every path.
C4_SessionClosedBeforeNextCompany ==
    pc \in { "company_head", "report", "done", "crashed" } => open_sessions = 0

\* the run has ended and a driver created for one of its companies was never
\* quit
C4_Witness ==
    /\ pc \in { "done", "crashed" }
    /\ open_sessions > 0

-----------------------------------------------------------------------------
(* Claims about the daily scheduler, checked under SpecScheduler           *)

\* the executions that passed the guard of line 54 and have not reached the
\* end of the finally clause
PastGuard ==
    { e \in Executions :
        exec_pc[e] \in { "run_company_applications", "generate_daily_summary",
                         "except", "finally", "finally_raising" } }

Ended(e) == exec_pc[e] \in { "returned", "raised" }

\* C20: at no point are two executions of _run_daily_job_search past the
\* is_running guard at the same time, and is_running is false again after every
\* execution that passed the guard, whether the run completed or raised.
C20_GuardExcludesOverlap ==
    /\ [](Cardinality(PastGuard) <= 1)
    /\ [](PastGuard = {} => is_running = FALSE)
    /\ [][ \A e \in Executions :
             (~Ended(e) /\ Ended(e)') => is_running' = FALSE ]_vars

\* one execution was turned away by the guard while another was past it, that
\* other one ended after an exception, and the flag is clear again
C20_Witness ==
    /\ skipped_executions > 0
    /\ \E e \in Executions : Ended(e)
    /\ stats.total_runs > stats.successful_runs
    /\ PastGuard = {}
    /\ is_running = FALSE

\* the executions that may still end without an exception having been raised
MaybeClean ==
    { e \in Executions :
        exec_pc[e] \in { "generate_daily_summary", "finally", "returned" } }

\* C30: each execution of _run_daily_job_search that passes the is_running
\* guard increases stats.total_runs by exactly one, and increases
\* stats.successful_runs by one only if no exception was raised anywhere in
\* that execution (including summary generation); successful_runs never
\* exceeds total_runs.
C30_RunsCountedOnce ==
    /\ PastGuard = {}
         => stats.total_runs = Cardinality({ e \in Executions : Ended(e) })
    /\ stats.successful_runs <= Cardinality(MaybeClean)
    /\ stats.successful_runs <= stats.total_runs

\* one execution passed the guard; its summary raised after the statistics were
\* updated: the run is counted twice, and once as successful
C30_Witness ==
    /\ PastGuard = {}
    /\ Cardinality({ e \in Executions : exec_pc[e] # "none" }) = 1
    /\ \E e \in Executions : exec_pc[e] = "returned"
    /\ stats = [ total_runs |-> 2, successful_runs |-> 1 ]

-----------------------------------------------------------------------------
(* Claims about the form helpers, checked under SpecHelper                 *)

Acted(event) ==
    \E k \in 1..Len(element_actions) : element_actions[k].event = event

\* C24: every page element that the form engine clicks, fills or uploads a file
\* to was both visible and enabled when it was checked immediately before the
\* action; this holds for the apply trigger, personal-info fields,
\* required-field sweep, file-upload inputs, the cover-letter textarea and the
\* submit element.
C24_ActsOnlyOnVisibleEnabled ==
    \A k \in 1..Len(element_actions) :
        element_actions[k].event \in { "click", "clear", "send_keys" }
            => element_actions[k].usable

\* a file was sent to a file input that is displayed and disabled, and the
\* helper reported an upload
C24_Witness ==
    /\ helper = "_handle_file_uploads"
    /\ hpc = "returned"
    /\ helper_result = "true"
    /\ \E k \in 1..Len(element_actions) :
          /\ element_actions[k].event = "send_keys"
          /\ page_elements[element_actions[k].index].is_displayed = "true"
          /\ page_elements[element_actions[k].index].is_enabled = "false"

\* a textarea is visible and enabled and its placeholder, name or id contains
\* a trigger word
NamesCoverLetter(textarea) ==
    /\ textarea.usable = "true"
    /\ \E attribute \in { textarea.placeholder, textarea.name, textarea.id } :
          AnyWordIn(cover_letter_words, Lower(OrEmpty(attribute)))

\* NamesCoverLetter, tabulated over the textareas of the model
NamesCoverLetterTable == [ textarea \in TextAreas |-> NamesCoverLetter(textarea) ]

\* every driver call on the textareas succeeds
TextAreasBehave ==
    \A i \in 1..Len(page_elements) :
        page_elements[i].usable # "raises" /\ page_elements[i].send_keys = "ok"

\* the positions of the textareas the step should modify: the first one that
\* names a cover letter, if there is one
FirstCoverLetterTextArea ==
    { i \in 1..Len(page_elements) :
        /\ NamesCoverLetterTable[page_elements[i]]
        /\ \A k \in 1..(i - 1) : ~NamesCoverLetterTable[page_elements[k]] }

\* C25: in the cover-letter-text step, the first visible and enabled textarea in
\* DOM order whose placeholder, name or id contains one of the trigger words
\* (cover, letter, message, additional, why) is cleared and filled with the
\* cover letter, and no other textarea is modified.
C25_FirstMatchingTextAreaFilled ==
    (helper = "_add_cover_letter_text" /\ hpc = "returned" /\ TextAreasBehave)
        => /\ \A i \in FirstCoverLetterTextArea :
                 \A event \in { "clear", "send_keys" } :
                     \E k \in 1..Len(element_actions) :
                         element_actions[k] = ElementAction(event, i, TRUE)
           /\ \A k \in 1..Len(element_actions) :
                 element_actions[k].index \in FirstCoverLetterTextArea

\* the only textarea has the placeholder "Your answer" and the name
\* "cover_letter"; the step returned and wrote nothing
C25_Witness ==
    /\ helper = "_add_cover_letter_text"
    /\ hpc = "returned"
    /\ helper_result = "none"
    /\ TextAreasBehave
    /\ Len(page_elements) = 1
    /\ page_elements[1].name = "cover_letter"
    /\ element_actions = << >>

====
